---- MODULE Spec2Model ----
(***************************************************************************)
(* A model of the GnuPG key reconciler (util/db/gpgkeys.go) and of the     *)
(* repository service (server/repository).                                  *)
(*                                                                         *)
(* Part 1: SynchronizeGPGPublicKeys and InitializeGPGKeyRing.  Each caller *)
(* of SynchronizeGPGPublicKeys is a process whose steps are the calls the  *)
(* function makes to the config map and to the gpg package, so that other  *)
(* callers and external keyring changes interleave between them.           *)
(***************************************************************************)
EXTENDS Integers, FiniteSets, Sequences, TLC

\* ------------------------------------------------------------------ bounds
NumKeys == 2
NumCallers == 2

KeyIDs == 1..NumKeys
Callers == 1..NumCallers

\* gpg.KeyID returns "" for a name that is no key ID.
NoKey == 0
\* The names an entry of the argocd-gpg-cm ConfigMap can carry: a key ID, or
\* a name that is no key ID (0).
Names == {NoKey} \cup KeyIDs

\* semaphore.NewWeighted(1)
SemSize == 1

\* ------------------------------------------------------------- key material
\* A value of the ConfigMap: text that gpg either cannot parse (valid = FALSE)
\* or parses to the listed key IDs.
Garbage == [valid |-> FALSE, keys |-> <<>>]
KeyData(ks) == [valid |-> TRUE, keys |-> ks]

\* gpg.ValidatePGPKeys: the IDs of the keys found in the file, or an error.
ValidatePGPKeys(p) ==
    IF p.valid THEN [err |-> FALSE, parsed |-> p.keys]
               ELSE [err |-> TRUE, parsed |-> <<>>]

validatePGPKey(keyData) ==
    LET r == ValidatePGPKeys(keyData)
    IN  IF r.err THEN [err |-> TRUE, id |-> NoKey]
        ELSE IF Len(r.parsed) # 1 THEN [err |-> TRUE, id |-> NoKey]
        ELSE [err |-> FALSE, id |-> r.parsed[1]]

KeyID(k) == IF k \in KeyIDs THEN k ELSE NoKey

\* One iteration of the loop of ListConfiguredGPGPublicKeys: does entry k -> p
\* make the function return an error?
EntryErrorSkipInvalid(k, p) == FALSE
EntryError(k, p) ==
    IF KeyID(k) # NoKey
    THEN \/ validatePGPKey(p).err
         \/ KeyID(k) # validatePGPKey(p).id
    ELSE TRUE

\* ListConfiguredGPGPublicKeys on ConfigMap data cm; cmErr: GetConfigMapByName
\* fails.  The result maps each parsed key ID to its key data.
ListConfiguredGPGPublicKeys(cm, cmErr) ==
    IF cmErr THEN [err |-> TRUE, keys |-> << >>]
    ELSE IF \E k \in DOMAIN cm : EntryError(k, cm[k])
         THEN [err |-> TRUE, keys |-> << >>]
         ELSE LET good == {k \in DOMAIN cm : KeyID(k) # NoKey /\ ~validatePGPKey(cm[k]).err}
                  ids == {validatePGPKey(cm[k]).id : k \in good}
              IN  [err |-> FALSE,
                   keys |-> [id \in ids |->
                               cm[CHOOSE k \in good : validatePGPKey(cm[k]).id = id]]]

\* ------------------------------------------------------------------ keyring
\* The keyring holds, per key ID, nothing, a public key, or a key pair
\* (a key gpg reports as secret).
KeyStates == {"absent", "public", "secret"}

GetInstalledPGPKeys(kr) == {k \in KeyIDs : kr[k] # "absent"}
IsSecretKey(kr, k) == kr[k] = "secret"
PublicKeys(kr) == {k \in KeyIDs : kr[k] = "public"}
SecretKeys(kr) == {k \in KeyIDs : kr[k] = "secret"}

\* gpg --delete-keys
DeleteKey(kr, k) == [kr EXCEPT ![k] = "absent"]

\* ListInstalledGPGPublicKeys, line 86-92: the loop visits the keys that
\* GetInstalledPGPKeys returned one by one, in the order of that slice.
NextListed(keys) == CHOOSE k \in keys : \A j \in keys : k <= j

\* line 87-91: what the loop does when IsSecretKey fails for a key.
SkipOnSecretCheckError == "skip"
OnSecretCheckError == "abort"

\* line 87-88: the test that guards result[v.KeyID] = v: err == nil && !isSecret.
IsListed(secErr, isSecret) == ~secErr /\ ~isSecret

\* The keys the first loop of SynchronizeGPGPublicKeys imports, and the keys
\* the second loop considers for removal.
ImportSetAll(configured, installed) == configured
ImportSet(configured, installed) == configured \ installed
DeleteSetNone(configured, installed) == {}
DeleteSetAll(configured, installed) == installed
DeleteSet(configured, installed) == installed \ configured

\* The test that guards DeletePGPKey: err == nil && !isSecret.
MayDelete(secErr, isSecret) == ~secErr /\ ~isSecret

\* gpg.ImportPGPKeysFromString / gpg.ImportPGPKeys on a keyring: every key of
\* the data that is not yet in the keyring is added as a public key; a key
\* already in the keyring stays as it is.
ImportPGPKeys(kr, keyData) ==
    [k \in KeyIDs |->
        IF (\E i \in 1..Len(keyData.keys) : keyData.keys[i] = k) /\ kr[k] = "absent"
        THEN "public" ELSE kr[k]]

\* -------------------------------------------------------------------- state
VARIABLES
    keysCM,          \* Data of the argocd-gpg-cm ConfigMap: entry name -> key data
    keyring,         \* the GnuPG keyring: key ID -> "absent" | "public" | "secret"
    syncSemaphore,   \* weight currently acquired from syncSemaphore
    pc,              \* per caller of SynchronizeGPGPublicKeys: where it is
    result,          \* per caller: what the call returned
    configuredKeys,  \* per caller: local configuredKeys (key ID -> key data)
    installedKeys,   \* per caller: local installedKeys (set of key IDs)
    attempt,         \* per caller: keys the two loops have visited, by outcome;
                     \* unchecked: the keys GetInstalledPGPKeys returned that
                     \* the listing loop has not visited yet; deleting: the
                     \* key the removal loop is about to pass to DeletePGPKey
    hist,            \* per caller: what the call has done so far (history)
    cleanSince,      \* history: the last completed call was fully successful
                     \* and the keyring was not changed from outside since
    initPc,          \* the caller of InitializeGPGKeyRing: where it is
    initResult,      \* what InitializeGPGKeyRing returned
    initConfigured,  \* its local configuredKeys
    initImported,    \* its local importedKeys (set of key IDs)
    initFailed       \* history: the key whose import made it fail, or NoKey

gpgVars == <<keysCM, keyring, syncSemaphore, pc, result, configuredKeys,
             installedKeys, attempt, hist, cleanSince,
             initPc, initResult, initConfigured, initImported, initFailed>>

\* The repository service's state (Part 2).
VARIABLES
    repos,        \* s.db: the stored repository per URL, or NoRepo
    repoCreds,    \* s.db: the stored credential set per URL, or NoRepo
    createdBy,    \* history: per URL, the request record of the Create that
                  \* inserted the stored record (NoRepo after any other write)
    call,         \* per client: the call in progress, its locals and its answer
    cache,        \* s.cache: the cached connection state per URL, or NoState
    clock,        \* the wall clock metav1.Now() reads
    deletedAt,    \* history: per URL, when the last DeleteRepository that
                  \* deleted its record returned (Never if none did)
    list,         \* the ListRepositories / ListRepositoryCredentials call in
                  \* progress, its locals and its answer
    probe         \* per URL: the getConnectionState task that the list call
                  \* runs for the item of that URL

cacheVars == <<cache, clock, deletedAt, list, probe>>
repoVars == <<repos, repoCreds, createdBy, call, cacheVars>>

NoAttempt == [imported |-> {}, importFailed |-> {}, deleted |-> {},
              deleteFailed |-> {}, deleteSkipped |-> {},
              unchecked |-> {}, deleting |-> NoKey]
NoHist == [touched |-> FALSE, loaded |-> FALSE, ext |-> FALSE,
           followsClean |-> FALSE, delSecret |-> FALSE, atAcquire |-> << >>,
           secErr |-> FALSE]
EmptyMap == << >>

\* The ConfigMaps the model starts from: any set of well-formed entries
\* (name k, data holding exactly key k) and at most one other entry: data gpg
\* cannot parse, data with no key, data with two keys, data with another
\* key than the entry's name, or an entry whose name is no key ID.
GoodData(k) == KeyData(<<k>>)
OtherKey(n) == (n % NumKeys) + 1
BadDataFor(n) ==
    {Garbage, KeyData(<< >>), KeyData(<<OtherKey(n)>>)}
    \cup (IF n = NoKey THEN {} ELSE {KeyData(<<n, OtherKey(n)>>)})
ConfigMapOf(S, B) ==
    [n \in S \cup DOMAIN B |-> IF n \in DOMAIN B THEN B[n] ELSE GoodData(n)]
BadEntrySets ==
    {EmptyMap} \cup UNION {{[x \in {n} |-> d] : d \in BadDataFor(n)} : n \in Names}
ConfigMaps ==
    {ConfigMapOf(S, B) : S \in SUBSET KeyIDs, B \in BadEntrySets}

GpgInit ==
    /\ keysCM \in ConfigMaps
    /\ keyring \in [KeyIDs -> KeyStates]
    /\ syncSemaphore = 0
    /\ pc = [p \in Callers |-> "idle"]
    /\ result = [p \in Callers |-> "none"]
    /\ configuredKeys = [p \in Callers |-> EmptyMap]
    /\ installedKeys = [p \in Callers |-> {}]
    /\ attempt = [p \in Callers |-> NoAttempt]
    /\ hist = [p \in Callers |-> NoHist]
    /\ cleanSince = FALSE
    /\ initPc = "idle"
    /\ initResult = "none"
    /\ initConfigured = EmptyMap
    /\ initImported = {}
    /\ initFailed = NoKey

\* ------------------------------------------- SynchronizeGPGPublicKeys (98-149)
InBody(p) == pc[p] \notin {"idle", "done"}

ImportTodo(p) ==
    ImportSet(DOMAIN configuredKeys[p], installedKeys[p])
        \ (attempt[p].imported \cup attempt[p].importFailed)
DeleteTodo(p) ==
    DeleteSet(DOMAIN configuredKeys[p], installedKeys[p])
        \ (attempt[p].deleted \cup attempt[p].deleteFailed \cup attempt[p].deleteSkipped)

\* syncSemaphore.TryAcquire(1)
TryAcquireAlways(sem) == TRUE
TryAcquire(sem) == SemSize - sem >= 1

\* defer syncSemaphore.Release(1), run when the call returns res
ReleaseOnSuccessOnly(sem, res) == IF res = "nil" THEN sem - 1 ELSE sem
DeferredRelease(sem, res) == sem - 1

\* What the import loop does after ImportPGPKeysFromString failed: it logs a
\* warning and goes on with the next key.
AbortOnImportError == "abort"
OnImportError == "continue"

\* An external change of the keyring, seen by the calls in progress.
MarkExternal ==
    /\ hist' = [p \in Callers |-> IF InBody(p) THEN [hist[p] EXCEPT !.ext = TRUE]
                                               ELSE hist[p]]
    /\ cleanSince' = FALSE

\* line 100-102: the semaphore is taken, the call fails at once
SyncLocked(p) ==
    /\ pc[p] = "idle"
    /\ ~TryAcquire(syncSemaphore)
    /\ pc' = [pc EXCEPT ![p] = "done"]
    /\ result' = [result EXCEPT ![p] = "locked"]
    /\ UNCHANGED <<keysCM, keyring, syncSemaphore, configuredKeys, installedKeys,
                   attempt, hist, cleanSince,
                   initPc, initResult, initConfigured, initImported, initFailed>>
    /\ UNCHANGED repoVars

\* line 100: the semaphore is acquired
SyncAcquire(p) ==
    /\ pc[p] = "idle"
    /\ TryAcquire(syncSemaphore)
    /\ syncSemaphore' = syncSemaphore + 1
    /\ pc' = [pc EXCEPT ![p] = "listConfigured"]
    /\ hist' = [hist EXCEPT ![p] = [NoHist EXCEPT !.followsClean = cleanSince,
                                                  !.atAcquire = keyring]]
    /\ UNCHANGED <<keysCM, keyring, result, configuredKeys, installedKeys,
                   attempt, cleanSince,
                   initPc, initResult, initConfigured, initImported, initFailed>>
    /\ UNCHANGED repoVars

\* line 105-108
SyncListConfigured(p) ==
    /\ pc[p] = "listConfigured"
    /\ \E cmErr \in BOOLEAN :
         LET r == ListConfiguredGPGPublicKeys(keysCM, cmErr)
         IN  IF r.err
             THEN /\ result' = [result EXCEPT ![p] = "error"]
                  /\ pc' = [pc EXCEPT ![p] = "return"]
                  /\ UNCHANGED configuredKeys
             ELSE /\ configuredKeys' = [configuredKeys EXCEPT ![p] = r.keys]
                  /\ pc' = [pc EXCEPT ![p] = "listInstalled"]
                  /\ UNCHANGED result
    /\ UNCHANGED <<keysCM, keyring, syncSemaphore, installedKeys, attempt, hist,
                   cleanSince, initPc, initResult, initConfigured, initImported, initFailed>>
    /\ UNCHANGED repoVars

\* line 110, ListInstalledGPGPublicKeys line 81-85: gpg.GetInstalledPGPKeys
SyncListInstalled(p) ==
    /\ pc[p] = "listInstalled"
    /\ \E listErr \in BOOLEAN :
         IF listErr
         THEN /\ result' = [result EXCEPT ![p] = "error"]
              /\ pc' = [pc EXCEPT ![p] = "return"]
              /\ hist' = [hist EXCEPT ![p].touched = TRUE]
              /\ UNCHANGED attempt
         ELSE LET keys == GetInstalledPGPKeys(keyring)
              IN  /\ attempt' = [attempt EXCEPT ![p].unchecked = keys]
                  /\ pc' = [pc EXCEPT ![p] = IF keys = {} THEN "import"
                                                         ELSE "checkSecret"]
                  /\ hist' = [hist EXCEPT ![p].touched = TRUE,
                                          ![p].loaded = (keys = {})]
                  /\ UNCHANGED result
    /\ UNCHANGED <<keysCM, keyring, syncSemaphore, configuredKeys, installedKeys,
                   cleanSince, initPc, initResult, initConfigured, initImported, initFailed>>
    /\ UNCHANGED repoVars

\* ListInstalledGPGPublicKeys line 86-94, line 111-113: one iteration of the
\* loop, gpg.IsSecretKey for the next key listed; after the last key the
\* listing is returned
SyncCheckSecret(p) ==
    /\ pc[p] = "checkSecret"
    /\ attempt[p].unchecked # {}
    /\ LET k == NextListed(attempt[p].unchecked)
           rest == attempt[p].unchecked \ {k}
       IN  \E secErr \in BOOLEAN :
             IF secErr /\ OnSecretCheckError = "abort"
             THEN /\ result' = [result EXCEPT ![p] = "error"]
                  /\ pc' = [pc EXCEPT ![p] = "return"]
                  /\ installedKeys' = [installedKeys EXCEPT ![p] = {}]
                  /\ attempt' = [attempt EXCEPT ![p].unchecked = {}]
                  /\ hist' = [hist EXCEPT ![p].secErr = TRUE]
             ELSE /\ installedKeys' =
                        [installedKeys EXCEPT
                            ![p] = IF IsListed(secErr, IsSecretKey(keyring, k))
                                   THEN @ \cup {k} ELSE @]
                  /\ attempt' = [attempt EXCEPT ![p].unchecked = rest]
                  /\ pc' = [pc EXCEPT ![p] = IF rest = {} THEN "import"
                                                         ELSE "checkSecret"]
                  /\ hist' = [hist EXCEPT ![p].secErr = @ \/ secErr,
                                          ![p].loaded = (rest = {})]
                  /\ UNCHANGED result
    /\ UNCHANGED <<keysCM, keyring, syncSemaphore, configuredKeys,
                   cleanSince, initPc, initResult, initConfigured, initImported, initFailed>>
    /\ UNCHANGED repoVars

\* line 116-128: one iteration of the import loop that reaches
\* ImportPGPKeysFromString, for a key the loop has not visited yet
SyncImport(p) ==
    /\ pc[p] = "import"
    /\ \E keyID \in ImportTodo(p), ok \in BOOLEAN :
         IF ok
         THEN /\ keyring' = ImportPGPKeys(keyring, configuredKeys[p][keyID])
              /\ attempt' = [attempt EXCEPT ![p].imported = @ \cup {keyID}]
              /\ UNCHANGED <<pc, result>>
         ELSE /\ attempt' = [attempt EXCEPT ![p].importFailed = @ \cup {keyID}]
              /\ IF OnImportError = "continue"
                 THEN UNCHANGED <<pc, result>>
                 ELSE /\ pc' = [pc EXCEPT ![p] = "return"]
                      /\ result' = [result EXCEPT ![p] = "error"]
              /\ UNCHANGED keyring
    /\ hist' = [hist EXCEPT ![p].touched = TRUE]
    /\ UNCHANGED <<keysCM, syncSemaphore, configuredKeys, installedKeys,
                   cleanSince, initPc, initResult, initConfigured, initImported, initFailed>>
    /\ UNCHANGED repoVars

\* line 128 -> 134: the import loop has visited every configured key
SyncImportsDone(p) ==
    /\ pc[p] = "import"
    /\ ImportTodo(p) = {}
    /\ pc' = [pc EXCEPT ![p] = "delete"]
    /\ UNCHANGED <<keysCM, keyring, syncSemaphore, result, configuredKeys,
                   installedKeys, attempt, hist, cleanSince,
                   initPc, initResult, initConfigured, initImported, initFailed>>
    /\ UNCHANGED repoVars

\* line 134-137: one iteration of the removal loop for an installed key that
\* is not configured, up to the test of gpg.IsSecretKey
SyncDeleteCheck(p) ==
    /\ pc[p] = "delete"
    /\ attempt[p].deleting = NoKey
    /\ \E keyID \in DeleteTodo(p), secErr \in BOOLEAN :
         IF MayDelete(secErr, IsSecretKey(keyring, keyID))
         THEN attempt' = [attempt EXCEPT ![p].deleting = keyID]
         ELSE attempt' = [attempt EXCEPT ![p].deleteSkipped = @ \cup {keyID}]
    /\ hist' = [hist EXCEPT ![p].touched = TRUE]
    /\ UNCHANGED <<keysCM, keyring, syncSemaphore, pc, result, configuredKeys,
                   installedKeys,
                   cleanSince, initPc, initResult, initConfigured, initImported, initFailed>>
    /\ UNCHANGED repoVars

\* line 138-141: gpg.DeletePGPKey for the key that passed the test
SyncDelete(p) ==
    /\ pc[p] = "delete"
    /\ attempt[p].deleting # NoKey
    /\ LET keyID == attempt[p].deleting
       IN  /\ hist' = [hist EXCEPT ![p].delSecret = @ \/ IsSecretKey(keyring, keyID)]
           /\ \E ok \in BOOLEAN :
                IF ok
                THEN /\ keyring' = DeleteKey(keyring, keyID)
                     /\ attempt' = [attempt EXCEPT ![p].deleted = @ \cup {keyID},
                                                   ![p].deleting = NoKey]
                ELSE /\ attempt' = [attempt EXCEPT ![p].deleteFailed = @ \cup {keyID},
                                                   ![p].deleting = NoKey]
                     /\ UNCHANGED keyring
    /\ UNCHANGED <<keysCM, syncSemaphore, pc, result, configuredKeys, installedKeys,
                   cleanSince, initPc, initResult, initConfigured, initImported, initFailed>>
    /\ UNCHANGED repoVars

\* line 148: return nil
SyncDeletesDone(p) ==
    /\ pc[p] = "delete"
    /\ DeleteTodo(p) = {}
    /\ attempt[p].deleting = NoKey
    /\ pc' = [pc EXCEPT ![p] = "return"]
    /\ result' = [result EXCEPT ![p] = "nil"]
    /\ UNCHANGED <<keysCM, keyring, syncSemaphore, configuredKeys, installedKeys,
                   attempt, hist, cleanSince,
                   initPc, initResult, initConfigured, initImported, initFailed>>
    /\ UNCHANGED repoVars

FullySuccessful(p) ==
    /\ result[p] = "nil"
    /\ attempt[p].importFailed = {}
    /\ attempt[p].deleteFailed = {}
    /\ attempt[p].deleteSkipped = {}

\* line 103: the deferred Release runs and the call returns to its caller
SyncReturn(p) ==
    /\ pc[p] = "return"
    /\ syncSemaphore' = DeferredRelease(syncSemaphore, result[p])
    /\ pc' = [pc EXCEPT ![p] = "done"]
    /\ configuredKeys' = [configuredKeys EXCEPT ![p] = EmptyMap]
    /\ installedKeys' = [installedKeys EXCEPT ![p] = {}]
    /\ attempt' = [attempt EXCEPT ![p] = NoAttempt]
    /\ hist' = [hist EXCEPT ![p] = NoHist]
    /\ cleanSince' = (FullySuccessful(p) /\ ~hist[p].ext)
    /\ UNCHANGED <<keysCM, keyring, result,
                   initPc, initResult, initConfigured, initImported, initFailed>>
    /\ UNCHANGED repoVars

\* The caller has its answer and may call again.
SyncCallAgain(p) ==
    /\ pc[p] = "done"
    /\ pc' = [pc EXCEPT ![p] = "idle"]
    /\ result' = [result EXCEPT ![p] = "none"]
    /\ hist' = [hist EXCEPT ![p] = NoHist]
    /\ UNCHANGED <<keysCM, keyring, syncSemaphore, configuredKeys, installedKeys,
                   attempt, cleanSince,
                   initPc, initResult, initConfigured, initImported, initFailed>>
    /\ UNCHANGED repoVars

\* Outside the program: a secret key with ID k is added to the keyring.
ExternalSecretKey(k) ==
    /\ keyring[k] # "secret"
    /\ keyring' = [keyring EXCEPT ![k] = "secret"]
    /\ MarkExternal
    /\ UNCHANGED <<keysCM, syncSemaphore, pc, result, configuredKeys, installedKeys,
                   attempt, initPc, initResult, initConfigured, initImported, initFailed>>
    /\ UNCHANGED repoVars

\* --------------------------------------------- InitializeGPGKeyRing (152-193)
syncVars == <<syncSemaphore, pc, result, configuredKeys, installedKeys, attempt>>

\* line 165: the keys the loop imports
InitImportSet(configured, kr) == configured

\* line 178-180: a failed import returns the error
InitContinueOnImportError == "continue"
OnInitImportError == "abort"

\* line 152-158: InitializeGPGKeyRing makes no call of syncSemaphore: it goes
\* on whatever the semaphore holds
InitAdmittedIfFree(sem) == sem < SemSize
InitAdmitted(sem) == TRUE

\* line 178-180: the keyring after an import failed: return nil, err, with
\* no call that removes the keys imported before
AfterFailedImportRollback(kr, imported) ==
    [k \in KeyIDs |-> IF k \in imported THEN "absent" ELSE kr[k]]
AfterFailedImport(kr, imported) == kr

\* line 157, 162, 168, 174, 179, 185, 192: the map the call returns: nil with
\* an error, importedKeys without
InitResultMap(res, imported) == IF res = "ok" THEN imported ELSE {}

\* line 155-158: gpg.InitializeGnuPG
InitBegin ==
    /\ initPc = "idle"
    /\ \E ok \in BOOLEAN :
         IF ~InitAdmitted(syncSemaphore)
         THEN /\ initPc' = "done"
              /\ initResult' = "locked"
         ELSE IF ok THEN /\ initPc' = "listConfigured"
                         /\ UNCHANGED initResult
                    ELSE /\ initPc' = "done"
                         /\ initResult' = "errGnuPG"
    /\ UNCHANGED <<keysCM, keyring, syncVars, hist, cleanSince,
                   initConfigured, initImported, initFailed>>
    /\ UNCHANGED repoVars

\* line 160-163
InitListConfigured ==
    /\ initPc = "listConfigured"
    /\ \E cmErr \in BOOLEAN :
         LET r == ListConfiguredGPGPublicKeys(keysCM, cmErr)
         IN  IF r.err
             THEN /\ initPc' = "done"
                  /\ initResult' = "errConfigured"
                  /\ UNCHANGED initConfigured
             ELSE /\ initPc' = "import"
                  /\ initConfigured' = r.keys
                  /\ UNCHANGED initResult
    /\ UNCHANGED <<keysCM, keyring, syncVars, hist, cleanSince,
                   initImported, initFailed>>
    /\ UNCHANGED repoVars

InitTodo == InitImportSet(DOMAIN initConfigured, keyring) \ (initImported \cup {initFailed})

\* line 165-190: one iteration of the loop; tmpErr: the temporary file cannot
\* be created or written; ok: gpg.ImportPGPKeys succeeds
InitImport ==
    /\ initPc = "import"
    /\ \E keyID \in InitTodo, tmpErr \in BOOLEAN, ok \in BOOLEAN :
         IF tmpErr
         THEN /\ initPc' = "done"
              /\ initResult' = "errTempFile"
              /\ UNCHANGED <<keyring, initImported, initFailed, hist, cleanSince>>
         ELSE IF ~ok
         THEN /\ initFailed' = keyID
              /\ IF OnInitImportError = "abort"
                 THEN /\ initPc' = "done"
                      /\ initResult' = "errImport"
                 ELSE UNCHANGED <<initPc, initResult>>
              /\ keyring' = AfterFailedImport(keyring, initImported)
              /\ UNCHANGED <<initImported, hist, cleanSince>>
         ELSE /\ keyring' = ImportPGPKeys(keyring, initConfigured[keyID])
              /\ MarkExternal
              /\ IF Len(initConfigured[keyID].keys) # 1
                 THEN /\ initPc' = "done"
                      /\ initResult' = "errUnexpected"
                      /\ UNCHANGED initImported
                 ELSE /\ initImported' = initImported \cup {initConfigured[keyID].keys[1]}
                      /\ UNCHANGED <<initPc, initResult>>
              /\ UNCHANGED initFailed
    /\ UNCHANGED <<keysCM, syncVars, initConfigured>>
    /\ UNCHANGED repoVars

\* line 192: return importedKeys, nil
InitReturn ==
    /\ initPc = "import"
    /\ InitTodo = {}
    /\ initPc' = "done"
    /\ initResult' = "ok"
    /\ UNCHANGED <<keysCM, keyring, syncVars, hist, cleanSince,
                   initConfigured, initImported, initFailed>>
    /\ UNCHANGED repoVars

\* The caller has its answer and may call again.
InitCallAgain ==
    /\ initPc = "done"
    /\ initPc' = "idle"
    /\ initResult' = "none"
    /\ initConfigured' = EmptyMap
    /\ initImported' = {}
    /\ initFailed' = NoKey
    /\ UNCHANGED <<keysCM, keyring, syncVars, hist, cleanSince>>
    /\ UNCHANGED repoVars

\* ======================================================================
\* Part 2: the repository service (server/repository).  Each client call is
\* a process whose steps are the calls the handler makes to the storage
\* (s.db), so that the calls of other clients interleave between them.
\* ======================================================================
RepoURLs == {"git@x/y", "https://x/z"}
Clients == {"c1", "c2"}
Credentials == {[username |-> "", password |-> ""],
                [username |-> "alice", password |-> "pw"]}
\* The client whose calls follow one another with no other client's call
\* in between.
SeqClients == {"c1"}
ConnectionStatusSuccessful == "Successful"
ConnectionStatusFailed == "Failed"

\* appsv1.Repository, with the fields the handlers read or compare
Repository(url, cred, insecure, lfs, cs) ==
    [repo |-> url, username |-> cred.username, password |-> cred.password,
     insecure |-> insecure, enableLFS |-> lfs, connectionState |-> cs]

\* The records a request can carry: for each URL, with and without
\* credentials, with an empty or a stale connection state.
RepoInputs ==
    {Repository(u, c, FALSE, FALSE, cs) :
        u \in RepoURLs, c \in Credentials, cs \in {"", ConnectionStatusFailed}}

NoRepo == [repo |-> ""]
NoResponse == [kind |-> "none", repo |-> ""]
OkResponse(url) == [kind |-> "ok", repo |-> url]
ErrResponse(kind) == [kind |-> kind, repo |-> ""]

\* Repository.HasCredentials, Repository.CopyCredentialsFrom, argo.GetRepoCreds
HasCredentials(r) == r.username # "" \/ r.password # ""
CredsOf(r) == IF r = NoRepo THEN [username |-> "", password |-> ""]
              ELSE [username |-> r.username, password |-> r.password]


\* History of the call: did: what it has done so far, among "storage" (a
\* call of s.db), "probe" (git.TestRepo) and "cache" (a write of s.cache);
\* denied: the oracle denied the handler's action at its head; updateDenied:
\* the oracle denied "update" to a Create that went on to UpdateRepository;
\* probed: the outcome of git.TestRepo; before: the stored record when the
\* call began; upd: the oracle's answer and the storage's failure in the
\* UpdateRepository the call ran; cacheErr: the invalidation of the cache
\* entry failed; cancelled: the caller's context was cancelled while
\* git.TestRepo ran.
Idle == [op |-> "none", pc |-> "idle", r |-> NoRepo, upsert |-> FALSE,
         probeCreds |-> CredsOf(NoRepo), response |-> NoResponse,
         follows |-> FALSE, interfered |-> FALSE, wrote |-> FALSE,
         did |-> {}, denied |-> FALSE, updateDenied |-> FALSE,
         probed |-> "no", before |-> NoRepo, upd |-> << >>,
         cacheErr |-> FALSE, cancelled |-> FALSE, asked |-> << >>,
         sent |-> [username |-> "", password |-> ""]]

\* ------------------------------------------------------------ bounds (time)
MaxClock == 2
Times == 0..MaxClock

\* appsv1.ConnectionState; the zero value stands for "no entry" in the cache.
ConnectionState(status, message, modifiedAt) ==
    [status |-> status, message |-> message, modifiedAt |-> modifiedAt]
NoState == ConnectionState("", "", 0)
\* line 77: fmt.Sprintf("Unable to connect to repository: %v", err)
UnableToConnect == "Unable to connect to repository"

NotDeleted == [done |-> FALSE, at |-> 0]

\* The list call at rest; allowed: the URLs for which the oracle allows "get"
\* to the caller; listed: the URLs the storage listed; urls: the listed URLs
\* the loop has not visited yet; looked (history): the URLs whose record the
\* loop asked the storage for; items: the result list, as a function of the
\* URL.
NoList == [op |-> "none", pc |-> "idle", forceRefresh |-> FALSE, allowed |-> {},
           listed |-> {}, urls |-> {}, looked |-> {}, items |-> << >>,
           response |-> "none", action |-> ""]
\* A getConnectionState task at rest.  History: found: the cache held an
\* entry the task could read; hit: the task returned the cached state;
\* lookedUp, tested, setCache: it called s.db.GetRepository, git.TestRepo,
\* s.cache.SetRepoConnectionState; lookupOk, testOk, wroteCache: the call
\* succeeded; failed: the task returned an error to util.RunAllAsync;
\* cancelled: the caller's context was cancelled while git.TestRepo ran.
NoProbe == [pc |-> "idle", forceRefresh |-> FALSE, now |-> 0, state |-> NoState,
            found |-> FALSE, hit |-> FALSE, lookedUp |-> FALSE, lookupOk |-> FALSE,
            tested |-> FALSE, testOk |-> FALSE, setCache |-> FALSE,
            wroteCache |-> FALSE, failed |-> FALSE, cancelled |-> FALSE]

\* No call is in progress, the cache is empty, no time has passed.
AtRest ==
    /\ call = [c \in Clients |-> Idle]
    /\ cache = [u \in RepoURLs |-> NoState]
    /\ clock = 0
    /\ deletedAt = [u \in RepoURLs |-> NotDeleted]
    /\ list = NoList
    /\ probe = [u \in RepoURLs |-> NoProbe]
\* The credential sets the storage can hold at the start.
StoredCreds ==
    {cs \in [RepoURLs -> {NoRepo} \cup
                {Repository(u, c, FALSE, FALSE, "") :
                    u \in RepoURLs, c \in Credentials \ {CredsOf(NoRepo)}}] :
        \A u \in RepoURLs : cs[u] = NoRepo \/ cs[u].repo = u}
RepoInit ==
    /\ repos = [u \in RepoURLs |-> NoRepo]
    /\ repoCreds \in StoredCreds
    /\ createdBy = [u \in RepoURLs |-> NoRepo]
    /\ AtRest

\* A write of the stored record of url by client c: the calls of the other
\* clients on that URL have been interfered with.
Interfere(calls, c, url) ==
    [d \in Clients |->
        IF d # c /\ calls[d].pc # "idle" /\ calls[d].r.repo = url
        THEN [calls[d] EXCEPT !.interfered = TRUE]
        ELSE calls[d]]

Finish(c, resp) ==
    [call EXCEPT ![c].pc = "done", ![c].response = resp]
\* The call of client c ends with resp, having stored record r for its URL.
FinishWrite(c, resp, r) ==
    [call EXCEPT ![c].pc = "done", ![c].response = resp,
                 ![c].wrote = @ \/ (repos[r.repo] # r)]

\* History: record r repeats the content of the request whose Create
\* inserted the stored record (the connection state is not content: line 311
\* overwrites the request's).
SentBefore(created, r) ==
    /\ created # NoRepo
    /\ created.repo = r.repo
    /\ created.username = r.username /\ created.password = r.password
    /\ created.insecure = r.insecure /\ created.enableLFS = r.enableLFS

\* line 320-322: existing.ConnectionState = r.ConnectionState, then
\* reflect.DeepEqual(existing, r)
SameSpecByPointer(existing, r) == FALSE
SameSpec(existing, r) ==
    [existing EXCEPT !.connectionState = r.connectionState] = r

\* ------------------------------------------------------- shared pieces
\* line 100, 131, 212, 244, 285, 334, 366, 375, 390, 405, 416: the action each
\* handler passes to the enforcer (rbacpolicy.ActionGet, ActionCreate,
\* ActionUpdate, ActionDelete), with rbacpolicy.ResourceRepositories and the
\* URL of the request
ActionOfAlwaysGet(op) == "get"
ActionOf(op) ==
    CASE op \in {"repos", "creds", "listApps", "appDetails"} -> "get"
      [] op \in {"create", "createCreds", "validate"} -> "create"
      [] op \in {"update", "updateCreds"} -> "update"
      [] op \in {"delete", "deleteCreds"} -> "delete"
Asks(op, url) ==
    [resource |-> "repositories", action |-> ActionOf(op), object |-> url]

\* s.enf.EnforceErr at the head of a handler: the handler returns the
\* permission error when the oracle does not allow the action.
DeniedNever(allowed) == FALSE
Denied(allowed) == ~allowed

\* line 307-309, 449-451: an error of git.TestRepo is returned
IgnoreProbeError == "ignore"
OnProbeError == "abort"

\* line 322-328, 347-353: what the AlreadyExists branch does with the result
\* of the comparison and the upsert flag
OnConflictIgnoreUpsert(same, upsert) == IF same THEN "idempotent" ELSE "conflict"
OnConflictAlwaysUpdate(same, upsert) == IF same THEN "idempotent" ELSE "update"
OnConflict(same, upsert) ==
    IF same THEN "idempotent" ELSE IF upsert THEN "update" ELSE "conflict"

\* line 296-304, 434-446: the credentials git.TestRepo is given: those of the
\* request's record if it has any, else those of the stored credential set
\* for the URL
ProbeCredsOfRequest(r, stored) == CredsOf(r)
ProbeCredsOfStored(r, stored) == CredsOf(stored)
ProbeCreds(r, stored) ==
    IF HasCredentials(r) THEN CredsOf(r) ELSE CredsOf(stored)

\* line 288, 311-312: the record handed to s.db.CreateRepository: the
\* request's record with the connection state Successful; creds: the
\* credentials the connection was tested with
InsertedWithProbeCreds(r, creds) ==
    [r EXCEPT !.connectionState = ConnectionStatusSuccessful,
              !.username = creds.username, !.password = creds.password]
InsertedRecord(r, creds) ==
    [r EXCEPT !.connectionState = ConnectionStatusSuccessful]

\* The call of client c has made the calls named in S.
Mark(calls, c, S) == [calls EXCEPT ![c].did = @ \cup S]

\* ---------------------------------------------- CreateRepository (284-331)
\* line 285-311: the authorization check (allowed: the enforcer's answer for
\* the "create" action), the choice of the credentials to test with
\* (credsErr: GetRepositoryCredentials fails), git.TestRepo (probeOk; cancel:
\* the context is cancelled meanwhile, which git.TestRepo is not given), and
\* r.ConnectionState = Successful
CreateBegin(c, r, upsert) ==
    /\ call[c].pc = "idle"
    /\ \E allowed \in BOOLEAN, credsErr \in BOOLEAN, probeOk \in BOOLEAN,
          cancel \in BOOLEAN :
         LET started == [Idle EXCEPT !.asked = <<Asks("create", r.repo)>>,
                                     !.op = "create", !.r = r, !.upsert = upsert,
                                     !.sent = CredsOf(r),
                                     !.denied = ~allowed,
                                     !.before = repos[r.repo],
                                     !.follows = SentBefore(createdBy[r.repo], r)]
             lookedUp == [started EXCEPT
                             !.did = IF HasCredentials(r) THEN {} ELSE {"storage"}]
             creds == ProbeCreds(r, repoCreds[r.repo])
             probed == [lookedUp EXCEPT !.did = @ \cup {"probe"},
                                        !.probeCreds = creds,
                                        !.cancelled = cancel,
                                        !.probed = IF probeOk THEN "ok" ELSE "failed"]
         IN  IF Denied(allowed)
             THEN call' = [call EXCEPT ![c] =
                     [started EXCEPT !.pc = "done",
                                     !.response = ErrResponse("PermissionDenied")]]
             ELSE IF ~HasCredentials(r) /\ credsErr
             THEN call' = [call EXCEPT ![c] =
                     [lookedUp EXCEPT !.pc = "done",
                                      !.response = ErrResponse("CredentialsError")]]
             ELSE IF ~probeOk /\ OnProbeError = "abort"
                  THEN call' = [call EXCEPT ![c] =
                          [probed EXCEPT !.pc = "done",
                                         !.response = ErrResponse("ProbeFailed")]]
                  ELSE call' = [call EXCEPT ![c] =
                          [probed EXCEPT
                              !.pc = "insert",
                              !.r = InsertedRecord(r, creds)]]
    /\ UNCHANGED <<repos, repoCreds, createdBy>>
    /\ UNCHANGED cacheVars
    /\ UNCHANGED gpgVars

\* line 312, 330: s.db.CreateRepository; dbErr: the storage fails otherwise
\* than with AlreadyExists
CreateInsert(c) ==
    /\ call[c].pc = "insert"
    /\ LET r == call[c].r
       IN  \E dbErr \in BOOLEAN :
            IF dbErr
            THEN /\ call' = Mark(Finish(c, ErrResponse("StorageError")), c, {"storage"})
                 /\ UNCHANGED <<repos, createdBy>>
            ELSE IF repos[r.repo] # NoRepo
            THEN /\ call' = Mark([call EXCEPT ![c].pc = "exists"], c, {"storage"})
                 /\ UNCHANGED <<repos, createdBy>>
            ELSE /\ repos' = [repos EXCEPT ![r.repo] = r]
                 /\ createdBy' = [createdBy EXCEPT ![r.repo] = r]
                 /\ call' = Mark(Interfere(FinishWrite(c, OkResponse(r.repo), r),
                                           c, r.repo), c, {"storage"})
    /\ UNCHANGED repoCreds
    /\ UNCHANGED cacheVars
    /\ UNCHANGED gpgVars

\* line 313-329: the storage said AlreadyExists; getErr: s.db.GetRepository
\* fails (the record may also be gone by now)
CreateExists(c) ==
    /\ call[c].pc = "exists"
    /\ LET r == call[c].r
           existing == repos[r.repo]
       IN  \E getErr \in BOOLEAN :
            IF getErr \/ existing = NoRepo
            THEN call' = Finish(c, ErrResponse("Internal"))
            ELSE LET todo == OnConflict(SameSpec(existing, r), call[c].upsert)
                 IN  IF todo = "idempotent"
                     THEN call' = Finish(c, OkResponse(existing.repo))
                     ELSE IF todo = "update"
                     THEN call' = [call EXCEPT ![c].pc = "update"]
                     ELSE call' = Finish(c, ErrResponse("InvalidArgument"))
    /\ UNCHANGED <<repos, repoCreds, createdBy>>
    /\ UNCHANGED cacheVars
    /\ UNCHANGED gpgVars

\* ---------------------------------------------- UpdateRepository (365-371)
\* The authorization check for "update", then s.db.UpdateRepository, which
\* overwrites the stored record; dbErr: the storage fails (it does when there
\* is no record for the URL).  The answer, the record stored afterwards, and
\* whether the storage was called, from the request's record r, the oracle's
\* answer, the storage's failure and the stored record.
UpdateResultUnchecked(r, allowed, dbErr, stored) ==
    IF dbErr \/ stored = NoRepo
    THEN [response |-> [kind |-> "StorageError", repo |-> r.repo],
          stored |-> stored, called |-> TRUE]
    ELSE [response |-> OkResponse(r.repo), stored |-> r, called |-> TRUE]
UpdateResultIfSame(r, allowed, dbErr, stored) ==
    IF Denied(allowed)
    THEN [response |-> ErrResponse("PermissionDenied"), stored |-> stored,
          called |-> FALSE]
    ELSE IF stored # NoRepo /\ stored # r
    THEN [response |-> ErrResponse("InvalidArgument"), stored |-> stored,
          called |-> FALSE]
    ELSE IF dbErr \/ stored = NoRepo
    THEN [response |-> [kind |-> "StorageError", repo |-> r.repo],
          stored |-> stored, called |-> TRUE]
    ELSE [response |-> OkResponse(r.repo), stored |-> r, called |-> TRUE]
UpdateResult(r, allowed, dbErr, stored) ==
    IF Denied(allowed)
    THEN [response |-> ErrResponse("PermissionDenied"), stored |-> stored,
          called |-> FALSE]
    ELSE IF dbErr \/ stored = NoRepo
    THEN [response |-> [kind |-> "StorageError", repo |-> r.repo],
          stored |-> stored, called |-> TRUE]
    ELSE [response |-> OkResponse(r.repo), stored |-> r, called |-> TRUE]

\* line 365-371: UpdateRepository makes no call of s.cache: the entries are
\* as they were, whether or not the record was overwritten
CacheAfterUpdateInvalidated(entries, url, written) ==
    IF written THEN [entries EXCEPT ![url] = NoState] ELSE entries
CacheAfterUpdate(entries, url, written) == entries

UpdateRepository(c) ==
    /\ call[c].pc = "update"
    /\ LET r == call[c].r
       IN  \E allowed \in BOOLEAN, dbErr \in BOOLEAN :
            LET res == UpdateResult(r, allowed, dbErr, repos[r.repo])
                ended == [Finish(c, res.response) EXCEPT
                             ![c].wrote = @ \/ (res.stored # repos[r.repo]),
                             ![c].upd = [allowed |-> allowed, dbErr |-> dbErr],
                             ![c].asked = Append(@, Asks("update", r.repo)),
                             ![c].denied = @ \/ (~allowed /\ call[c].op = "update"),
                             ![c].updateDenied = ~allowed /\ call[c].op = "create",
                             ![c].did = @ \cup (IF res.called THEN {"storage"} ELSE {})]
            IN  /\ repos' = [repos EXCEPT ![r.repo] = res.stored]
                /\ createdBy' = IF res.stored = repos[r.repo] THEN createdBy
                                ELSE [createdBy EXCEPT ![r.repo] = NoRepo]
                /\ call' = IF res.stored = repos[r.repo] THEN ended
                           ELSE Interfere(ended, c, r.repo)
                /\ cache' = CacheAfterUpdate(cache, r.repo, res.stored # repos[r.repo])
    /\ UNCHANGED repoCreds
    /\ UNCHANGED <<clock, deletedAt, list, probe>>
    /\ UNCHANGED gpgVars

\* A client calls UpdateRepository (or the deprecated Update) with record r.
UpdateBegin(c, r) ==
    /\ call[c].pc = "idle"
    /\ call' = [call EXCEPT ![c] = [Idle EXCEPT !.op = "update", !.pc = "update",
                                                !.r = r,
                                                !.before = repos[r.repo]]]
    /\ UNCHANGED <<repos, repoCreds, createdBy>>
    /\ UNCHANGED cacheVars
    /\ UNCHANGED gpgVars

\* ------------------------------------ CreateRepositoryCredentials (333-356)
\* The records a credential-set request can carry: as those of a repository
\* request, with an empty or a stale connection state.
CredInputs ==
    {Repository(u, c, FALSE, FALSE, cs) :
        u \in RepoURLs, c \in Credentials, cs \in {"", ConnectionStatusFailed}}
\* Those that carry no connection state.
FreshCredInputs == {r \in CredInputs : r.connectionState = ""}
\* repositorypkg.RepoResponse{}
EmptyResponse == [kind |-> "ok", repo |-> ""]
\* A request that names a URL only (RepoQuery, RepoAppsQuery, ...)
Query(url) == [repo |-> url]

\* line 347: reflect.DeepEqual(existing, r)
SameCreds(existing, r) == existing = r

\* line 334-339, 355: the authorization check for "create", then
\* s.db.CreateRepositoryCredentials; dbErr: the storage fails otherwise than
\* with AlreadyExists
CreateRepositoryCredentials(c, r, upsert) ==
    /\ call[c].pc = "idle"
    /\ \E allowed \in BOOLEAN, dbErr \in BOOLEAN :
         LET started == [Idle EXCEPT !.asked = <<Asks("createCreds", r.repo)>>, !.op = "createCreds", !.r = r,
                                     !.upsert = upsert, !.denied = ~allowed,
                                     !.before = repoCreds[r.repo]]
             called == [started EXCEPT !.did = {"storage"}]
         IN  IF Denied(allowed)
             THEN /\ call' = [call EXCEPT ![c] =
                        [started EXCEPT !.pc = "done",
                                        !.response = ErrResponse("PermissionDenied")]]
                  /\ UNCHANGED repoCreds
             ELSE IF dbErr
             THEN /\ call' = [call EXCEPT ![c] =
                        [called EXCEPT !.pc = "done",
                                       !.response = ErrResponse("StorageError")]]
                  /\ UNCHANGED repoCreds
             ELSE IF repoCreds[r.repo] # NoRepo
             THEN /\ call' = [call EXCEPT ![c] = [called EXCEPT !.pc = "credsExists"]]
                  /\ UNCHANGED repoCreds
             ELSE /\ repoCreds' = [repoCreds EXCEPT ![r.repo] = r]
                  /\ call' = [call EXCEPT ![c] =
                        [called EXCEPT !.pc = "done", !.wrote = TRUE,
                                       !.response = OkResponse(r.repo)]]
    /\ UNCHANGED <<repos, createdBy>>
    /\ UNCHANGED cacheVars
    /\ UNCHANGED gpgVars

\* line 340-354: the storage said AlreadyExists; getErr:
\* s.db.GetRepositoryCredentials fails.  When the set is gone by now the
\* storage returns no set and no error (existing is nil), which differs from
\* the request's record.
CredsExists(c) ==
    /\ call[c].pc = "credsExists"
    /\ LET r == call[c].r
           existing == repoCreds[r.repo]
       IN  \E getErr \in BOOLEAN :
            IF getErr
            THEN call' = Finish(c, ErrResponse("Internal"))
            ELSE LET todo == OnConflict(SameCreds(existing, r), call[c].upsert)
                 IN  IF todo = "idempotent"
                     THEN call' = Finish(c, OkResponse(existing.repo))
                     ELSE IF todo = "update"
                     THEN call' = [call EXCEPT ![c].pc = "updateCreds"]
                     ELSE call' = Finish(c, ErrResponse("InvalidArgument"))
    /\ UNCHANGED <<repos, repoCreds, createdBy>>
    /\ UNCHANGED cacheVars
    /\ UNCHANGED gpgVars

\* ------------------------------------ UpdateRepositoryCredentials (374-380)
UpdateRepositoryCredentials(c) ==
    /\ call[c].pc = "updateCreds"
    /\ LET r == call[c].r
       IN  \E allowed \in BOOLEAN, dbErr \in BOOLEAN :
            LET res == UpdateResult(r, allowed, dbErr, repoCreds[r.repo])
            IN  /\ repoCreds' = [repoCreds EXCEPT ![r.repo] = res.stored]
                /\ call' = [Finish(c, res.response) EXCEPT
                     ![c].wrote = @ \/ (res.stored # repoCreds[r.repo]),
                     ![c].upd = [allowed |-> allowed, dbErr |-> dbErr],
                     ![c].asked = Append(@, Asks("updateCreds", r.repo)),
                     ![c].denied = @ \/ (~allowed /\ call[c].op = "updateCreds"),
                     ![c].updateDenied = ~allowed /\ call[c].op = "createCreds",
                     ![c].did = @ \cup (IF res.called THEN {"storage"} ELSE {})]
    /\ UNCHANGED <<repos, createdBy>>
    /\ UNCHANGED cacheVars
    /\ UNCHANGED gpgVars

\* A client calls UpdateRepositoryCredentials with record r.
UpdateCredsBegin(c, r) ==
    /\ call[c].pc = "idle"
    /\ call' = [call EXCEPT ![c] = [Idle EXCEPT !.op = "updateCreds",
                                                !.pc = "updateCreds", !.r = r,
                                                !.before = repoCreds[r.repo]]]
    /\ UNCHANGED <<repos, repoCreds, createdBy>>
    /\ UNCHANGED cacheVars
    /\ UNCHANGED gpgVars

\* ---------------------------------------------- DeleteRepository (389-401)
\* s.cache.SetRepoConnectionState(url, nil): the entry of url is removed,
\* unless the cache fails (cacheErr).
InvalidateNothing(entries, url, cacheErr) == entries
Invalidate(entries, url, cacheErr) ==
    IF cacheErr THEN entries ELSE [entries EXCEPT ![url] = NoState]

\* line 390-397: the authorization check for "delete", then the invalidation
\* of the cache entry, whose error is not returned
DeleteRepository(c, url) ==
    /\ call[c].pc = "idle"
    /\ \E allowed \in BOOLEAN, cacheErr \in BOOLEAN :
         LET started == [Idle EXCEPT !.asked = <<Asks("delete", url)>>,
                                     !.op = "delete", !.r = Query(url),
                                     !.denied = ~allowed,
                                     !.before = repos[url]]
         IN  IF Denied(allowed)
             THEN /\ call' = [call EXCEPT ![c] =
                        [started EXCEPT !.pc = "done",
                                        !.response = ErrResponse("PermissionDenied")]]
                  /\ UNCHANGED cache
             ELSE /\ cache' = Invalidate(cache, url, cacheErr)
                  /\ call' = [call EXCEPT ![c] =
                        [started EXCEPT !.pc = "deleteStorage", !.did = {"cache"},
                                        !.cacheErr = cacheErr]]
    /\ UNCHANGED <<repos, repoCreds, createdBy, clock, deletedAt, list, probe>>
    /\ UNCHANGED gpgVars

\* What DeleteRepository does once the cache has been dealt with.
SkipDeleteOnCacheError(cacheErr) == IF cacheErr THEN "return" ELSE "delete"
AfterInvalidate(cacheErr) == "delete"

\* line 399-400: s.db.DeleteRepository; dbErr: the storage fails (it does
\* when there is no record for the URL)
DeleteStorage(c) ==
    /\ call[c].pc = "deleteStorage"
    /\ LET url == call[c].r.repo
       IN  \E dbErr \in BOOLEAN :
            IF AfterInvalidate(call[c].cacheErr) # "delete"
            THEN /\ call' = Finish(c, ErrResponse("CacheError"))
                 /\ UNCHANGED <<repos, createdBy, deletedAt>>
            ELSE IF dbErr \/ repos[url] = NoRepo
            THEN /\ call' = Mark(Finish(c, ErrResponse("StorageError")), c, {"storage"})
                 /\ UNCHANGED <<repos, createdBy, deletedAt>>
            ELSE /\ repos' = [repos EXCEPT ![url] = NoRepo]
                 /\ createdBy' = [createdBy EXCEPT ![url] = NoRepo]
                 /\ deletedAt' = [deletedAt EXCEPT ![url] = [done |-> TRUE, at |-> clock]]
                 /\ call' = [Mark(Interfere(Finish(c, EmptyResponse), c, url),
                                  c, {"storage"}) EXCEPT ![c].wrote = TRUE]
    /\ UNCHANGED <<repoCreds, cache, clock, list, probe>>
    /\ UNCHANGED gpgVars

\* ------------------------------------ DeleteRepositoryCredentials (404-411)
DeleteRepositoryCredentials(c, url) ==
    /\ call[c].pc = "idle"
    /\ \E allowed \in BOOLEAN, dbErr \in BOOLEAN :
         LET started == [Idle EXCEPT !.asked = <<Asks("deleteCreds", url)>>, !.op = "deleteCreds", !.r = Query(url),
                                     !.pc = "done", !.denied = ~allowed,
                                     !.before = repoCreds[url]]
             called == [started EXCEPT !.did = {"storage"}]
         IN  IF Denied(allowed)
             THEN /\ call' = [call EXCEPT ![c] =
                        [started EXCEPT !.response = ErrResponse("PermissionDenied")]]
                  /\ UNCHANGED repoCreds
             ELSE IF dbErr \/ repoCreds[url] = NoRepo
             THEN /\ call' = [call EXCEPT ![c] =
                        [called EXCEPT !.response = ErrResponse("StorageError")]]
                  /\ UNCHANGED repoCreds
             ELSE /\ repoCreds' = [repoCreds EXCEPT ![url] = NoRepo]
                  /\ call' = [call EXCEPT ![c] =
                        [called EXCEPT !.response = EmptyResponse, !.wrote = TRUE]]
    /\ UNCHANGED <<repos, createdBy>>
    /\ UNCHANGED cacheVars
    /\ UNCHANGED gpgVars

\* ------------------------------------------------ ValidateAccess (415-453)
\* The authorization check for "create", the choice of the credentials to
\* test with (credsErr: GetRepositoryCredentials fails), git.TestRepo (probeOk;
\* cancel: the context is cancelled meanwhile)
ValidateAccess(c, url, cred) ==
    /\ call[c].pc = "idle"
    /\ \E allowed \in BOOLEAN, credsErr \in BOOLEAN, probeOk \in BOOLEAN,
          cancel \in BOOLEAN :
         LET r == Repository(url, cred, FALSE, FALSE, "")
             started == [Idle EXCEPT !.asked = <<Asks("validate", url)>>,
                                     !.op = "validate", !.r = r, !.pc = "done",
                                     !.denied = ~allowed]
             lookedUp == [started EXCEPT
                             !.did = IF HasCredentials(r) THEN {} ELSE {"storage"}]
             creds == ProbeCreds(r, repoCreds[url])
             probed == [lookedUp EXCEPT !.did = @ \cup {"probe"},
                                        !.probeCreds = creds,
                                        !.cancelled = cancel,
                                        !.probed = IF probeOk THEN "ok" ELSE "failed"]
         IN  IF Denied(allowed)
             THEN call' = [call EXCEPT ![c] =
                     [started EXCEPT !.response = ErrResponse("PermissionDenied")]]
             ELSE IF ~HasCredentials(r) /\ credsErr
             THEN call' = [call EXCEPT ![c] =
                     [lookedUp EXCEPT !.response = ErrResponse("CredentialsError")]]
             ELSE IF ~probeOk /\ OnProbeError = "abort"
                  THEN call' = [call EXCEPT ![c] =
                          [probed EXCEPT !.response = ErrResponse("ProbeFailed")]]
                  ELSE call' = [call EXCEPT ![c] =
                          [probed EXCEPT !.response = EmptyResponse]]
    /\ UNCHANGED <<repos, repoCreds, createdBy>>
    /\ UNCHANGED cacheVars
    /\ UNCHANGED gpgVars

\* ------------------------------------------------------ ListApps (211-241)
\* The authorization check for "get", s.db.GetRepository (getErr), then the
\* repo server (serverOk: NewRepoServerClient and listAppsPaths succeed)
ListApps(c, url) ==
    /\ call[c].pc = "idle"
    /\ \E allowed \in BOOLEAN, getErr \in BOOLEAN, serverOk \in BOOLEAN :
         LET started == [Idle EXCEPT !.asked = <<Asks("listApps", url)>>, !.op = "listApps", !.r = Query(url),
                                     !.pc = "done", !.denied = ~allowed]
             called == [started EXCEPT !.did = {"storage"}]
         IN  IF Denied(allowed)
             THEN call' = [call EXCEPT ![c] =
                     [started EXCEPT !.response = ErrResponse("PermissionDenied")]]
             ELSE IF getErr \/ repos[url] = NoRepo
             THEN call' = [call EXCEPT ![c] =
                     [called EXCEPT !.response = ErrResponse("StorageError")]]
             ELSE IF ~serverOk
             THEN call' = [call EXCEPT ![c] =
                     [called EXCEPT !.response = ErrResponse("RepoServerError")]]
             ELSE call' = [call EXCEPT ![c] = [called EXCEPT !.response = EmptyResponse]]
    /\ UNCHANGED <<repos, repoCreds, createdBy>>
    /\ UNCHANGED cacheVars
    /\ UNCHANGED gpgVars

\* ------------------------------------------------- GetAppDetails (243-275)
\* The authorization check for "get", s.db.GetRepository (getErr), then
\* NewRepoServerClient, s.db.ListHelmRepos, GetKustomizeBuildOptions and the
\* repo server's GetAppDetails (restOk: all of them succeed)
GetAppDetails(c, url) ==
    /\ call[c].pc = "idle"
    /\ \E allowed \in BOOLEAN, getErr \in BOOLEAN, restOk \in BOOLEAN :
         LET started == [Idle EXCEPT !.asked = <<Asks("appDetails", url)>>, !.op = "appDetails", !.r = Query(url),
                                     !.pc = "done", !.denied = ~allowed]
             called == [started EXCEPT !.did = {"storage"}]
         IN  IF Denied(allowed)
             THEN call' = [call EXCEPT ![c] =
                     [started EXCEPT !.response = ErrResponse("PermissionDenied")]]
             ELSE IF getErr \/ repos[url] = NoRepo
             THEN call' = [call EXCEPT ![c] =
                     [called EXCEPT !.response = ErrResponse("StorageError")]]
             ELSE IF ~restOk
             THEN call' = [call EXCEPT ![c] =
                     [called EXCEPT !.response = ErrResponse("RepoServerError")]]
             ELSE call' = [call EXCEPT ![c] = [called EXCEPT !.response = EmptyResponse]]
    /\ UNCHANGED <<repos, repoCreds, createdBy>>
    /\ UNCHANGED cacheVars
    /\ UNCHANGED gpgVars

\* The client has its answer and may call again.
CallAgain(c) ==
    /\ call[c].pc = "done"
    /\ call' = [call EXCEPT ![c] = Idle]
    /\ UNCHANGED <<repos, repoCreds, createdBy>>
    /\ UNCHANGED cacheVars
    /\ UNCHANGED gpgVars

\* -------------------------------------------- getConnectionState (60-84)
\* line 61-65: the cached state is returned when no refresh is forced and
\* s.cache.GetRepoConnectionState returns no error (found)
UseCacheAlways(forceRefresh, found) == found
UseCache(forceRefresh, found) == ~forceRefresh /\ found

\* line 66-78: the state computed from the outcome of s.db.GetRepository and
\* of git.TestRepo at time now
ProbeStateAlwaysSuccessful(lookupOk, testOk, now) ==
    ConnectionState(ConnectionStatusSuccessful, "", now)
ProbeState(lookupOk, testOk, now) ==
    IF lookupOk /\ testOk
    THEN ConnectionState(ConnectionStatusSuccessful, "", now)
    ELSE ConnectionState(ConnectionStatusFailed, UnableToConnect, now)

\* line 71-78: an error of s.db.GetRepository goes into the state; the task
\* does not fail
PropagateLookupError == "propagate"
OnLookupError == "capture"

\* line 72: git.TestRepo is called when s.db.GetRepository succeeded
Tests(lookupOk) == lookupOk

\* line 61-66: the task for the item of URL u starts; found: the cache holds
\* an entry and can be read
ProbeStart(u) ==
    /\ probe[u].pc = "start"
    /\ \E readErr \in BOOLEAN :
         LET found == cache[u] # NoState /\ ~readErr
         IN  IF UseCache(probe[u].forceRefresh, found)
             THEN probe' = [probe EXCEPT ![u].pc = "done", ![u].hit = TRUE,
                                         ![u].found = found,
                                         ![u].state = cache[u]]
             ELSE probe' = [probe EXCEPT ![u].pc = "lookup", ![u].now = clock,
                                         ![u].found = found]
    /\ UNCHANGED <<repos, repoCreds, createdBy, call, cache, clock, deletedAt, list>>
    /\ UNCHANGED gpgVars

\* line 71-78: s.db.GetRepository (getErr: the storage fails; it does when
\* there is no record for the URL) and git.TestRepo (probeOk; cancel: the
\* context is cancelled meanwhile, which git.TestRepo is not given)
ProbeLookup(u) ==
    /\ probe[u].pc = "lookup"
    /\ \E getErr \in BOOLEAN, probeOk \in BOOLEAN, cancel \in BOOLEAN :
         LET lookupOk == ~getErr /\ repos[u] # NoRepo
             tested == Tests(lookupOk)
         IN  probe' = [probe EXCEPT
                 ![u].pc = IF ~lookupOk /\ OnLookupError = "propagate"
                           THEN "done" ELSE "set",
                 ![u].failed = ~lookupOk /\ OnLookupError = "propagate",
                 ![u].lookedUp = TRUE, ![u].lookupOk = lookupOk,
                 ![u].tested = tested, ![u].testOk = tested /\ probeOk,
                 ![u].cancelled = tested /\ cancel,
                 ![u].state = ProbeState(lookupOk, tested /\ probeOk, probe[u].now)]
    /\ UNCHANGED <<repos, repoCreds, createdBy, call, cache, clock, deletedAt, list>>
    /\ UNCHANGED gpgVars

\* line 79: s.cache.SetRepoConnectionState is called with every computed
\* state, whatever its status
SetsCacheOnSuccess(state) == state.status = ConnectionStatusSuccessful
SetsCache(state) == TRUE

\* line 79-83: s.cache.SetRepoConnectionState; cacheErr: the cache fails, which
\* is logged
ProbeSet(u) ==
    /\ probe[u].pc = "set"
    /\ \E cacheErr \in BOOLEAN :
         LET sets == SetsCache(probe[u].state)
         IN  /\ cache' = IF sets /\ ~cacheErr
                         THEN [cache EXCEPT ![u] = probe[u].state] ELSE cache
             /\ probe' = [probe EXCEPT ![u].pc = "done", ![u].setCache = sets,
                                       ![u].wroteCache = sets /\ ~cacheErr]
    /\ UNCHANGED <<repos, repoCreds, createdBy, call, clock, deletedAt, list>>
    /\ UNCHANGED gpgVars

\* ---------------------------------------------- ListRepositories (93-121)
\* line 100, 131: s.enf.Enforce(..., "get", url) decides whether the URL is
\* listed
ListsAll(allowed, url) == TRUE
Lists(allowed, url) == url \in allowed

\* line 105-110, 136-141: the list item made from a stored record
ItemWithPassword(url, repo, insecure, enableLFS) ==
    [repo |-> url, username |-> repo.password, insecure |-> insecure,
     enableLFS |-> enableLFS, connectionState |-> NoState]
Item(url, repo, insecure, enableLFS) ==
    [repo |-> url, username |-> repo.username, insecure |-> insecure,
     enableLFS |-> enableLFS, connectionState |-> NoState]

\* line 94-97: s.db.ListRepoURLs; listErr: the storage fails
ListRepositories(forceRefresh, allowed) ==
    /\ list.pc = "idle"
    /\ \E listErr \in BOOLEAN :
         IF listErr
         THEN list' = [NoList EXCEPT !.op = "repos", !.pc = "done",
                                     !.forceRefresh = forceRefresh,
                                     !.allowed = allowed,
                                     !.response = "StorageError"]
         ELSE list' = [NoList EXCEPT !.op = "repos", !.pc = "lookup",
                                     !.action = ActionOf("repos"),
                                     !.forceRefresh = forceRefresh,
                                     !.allowed = allowed,
                                     !.listed = {u \in RepoURLs : repos[u] # NoRepo},
                                     !.urls = {u \in RepoURLs : repos[u] # NoRepo}]
    /\ UNCHANGED <<repos, repoCreds, createdBy, call, cache, clock, deletedAt, probe>>
    /\ UNCHANGED gpgVars

\* line 101-104: an error of s.db.GetRepository ends ListRepositories
SkipItemOnError == "skip"
OnItemError == "abort"

\* line 99-112: one iteration of the loop; getErr: s.db.GetRepository fails (it
\* does when the record is gone by now)
ListLookup ==
    /\ list.op = "repos" /\ list.pc = "lookup"
    /\ \E url \in list.urls, getErr \in BOOLEAN :
         IF ~Lists(list.allowed, url)
         THEN list' = [list EXCEPT !.urls = @ \ {url}]
         ELSE IF getErr \/ repos[url] = NoRepo
         THEN IF OnItemError = "abort"
              THEN list' = [list EXCEPT !.pc = "done", !.urls = {}, !.items = << >>,
                                        !.looked = @ \cup {url},
                                        !.response = "StorageError"]
              ELSE list' = [list EXCEPT !.urls = @ \ {url}, !.looked = @ \cup {url}]
         ELSE list' = [list EXCEPT
                 !.urls = @ \ {url},
                 !.looked = @ \cup {url},
                 !.items = [v \in DOMAIN list.items \cup {url} |->
                              IF v = url
                              THEN Item(url, repos[url], repos[url].insecure,
                                        repos[url].enableLFS)
                              ELSE list.items[v]]]
    /\ UNCHANGED <<repos, repoCreds, createdBy, call, cache, clock, deletedAt, probe>>
    /\ UNCHANGED gpgVars

\* line 113: util.RunAllAsync(len(items), ...): the items for which a task
\* is run
TasksButOne(items) ==
    IF DOMAIN items = {} THEN {}
    ELSE DOMAIN items \ {CHOOSE u \in DOMAIN items : TRUE}
Tasks(items) == DOMAIN items

\* util.RunAllAsync returns once every task it started has returned
Joins(tasks) == \A u \in tasks : probe[u].pc = "done"

\* line 113: util.RunAllAsync starts one getConnectionState task per item
ListFanOut ==
    /\ list.op = "repos" /\ list.pc = "lookup" /\ list.urls = {}
    /\ list' = [list EXCEPT !.pc = "probing"]
    /\ probe' = [u \in RepoURLs |->
                   IF u \in Tasks(list.items)
                   THEN [NoProbe EXCEPT !.pc = "start",
                                        !.forceRefresh = list.forceRefresh]
                   ELSE NoProbe]
    /\ UNCHANGED <<repos, repoCreds, createdBy, call, cache, clock, deletedAt>>
    /\ UNCHANGED gpgVars

\* line 114-115: the error a task returns to util.RunAllAsync once it has
\* the state: none (return nil)
UnitError(state) == FALSE

\* The task for u has returned an error.
Raised(u) ==
    probe[u].pc = "done" /\ (probe[u].failed \/ UnitError(probe[u].state))

\* line 117-119: if err != nil { return nil, err }: ListRepositories returns
\* the error of util.RunAllAsync exactly when there is one
ReturnsErrorRegardless(err) == TRUE
ReturnsError(err) == err

\* line 113-120: every task has returned, or one has returned an error; the
\* call returns the items with the states the tasks returned, or the error
\* of a task
ListJoin ==
    /\ list.op = "repos" /\ list.pc = "probing"
    /\ Joins(Tasks(list.items)) \/ \E u \in Tasks(list.items) : Raised(u)
    /\ IF ReturnsError(\E u \in Tasks(list.items) : Raised(u))
       THEN list' = [list EXCEPT !.pc = "done", !.items = << >>,
                                 !.response = "StorageError"]
       ELSE list' = [list EXCEPT
               !.pc = "done", !.response = "ok",
               !.items = [u \in DOMAIN list.items |->
                            IF u \in Tasks(list.items)
                            THEN [list.items[u] EXCEPT
                                     !.connectionState = probe[u].state]
                            ELSE list.items[u]]]
    /\ UNCHANGED <<repos, repoCreds, createdBy, call, cache, clock, deletedAt, probe>>
    /\ UNCHANGED gpgVars

\* ------------------------------------- ListRepositoryCredentials (124-145)
\* line 125-129: s.db.ListRepositoryCredentials; listErr: the storage fails
ListRepositoryCredentials(allowed) ==
    /\ list.pc = "idle"
    /\ \E listErr \in BOOLEAN :
         LET urls == {u \in RepoURLs : repoCreds[u] # NoRepo}
             started == [NoList EXCEPT !.op = "creds", !.allowed = allowed]
         IN  IF listErr
             THEN list' = [started EXCEPT !.pc = "done",
                                          !.response = "StorageError"]
             ELSE list' = [started EXCEPT !.pc = "lookup",
                                          !.action = ActionOf("creds"),
                                          !.listed = urls, !.urls = urls]
    /\ UNCHANGED <<repos, repoCreds, createdBy, call, cache, clock, deletedAt, probe>>
    /\ UNCHANGED gpgVars

\* line 130-141: one iteration of the loop; getErr:
\* s.db.GetRepositoryCredentials fails.  When the set is gone by now the
\* storage returns no set and no error, and line 138 reads the username
\* through the nil pointer: the call ends in a panic, with no answer.
ListCredsLookup ==
    /\ list.op = "creds" /\ list.pc = "lookup"
    /\ \E url \in list.urls, getErr \in BOOLEAN :
         IF ~Lists(list.allowed, url)
         THEN list' = [list EXCEPT !.urls = @ \ {url}]
         ELSE IF getErr
         THEN list' = [list EXCEPT !.pc = "done", !.urls = {}, !.items = << >>,
                                   !.looked = @ \cup {url},
                                   !.response = "StorageError"]
         ELSE IF repoCreds[url] = NoRepo
         THEN list' = [list EXCEPT !.pc = "done", !.urls = {}, !.items = << >>,
                                   !.looked = @ \cup {url},
                                   !.response = "panic"]
         ELSE list' = [list EXCEPT
                 !.urls = @ \ {url},
                 !.looked = @ \cup {url},
                 !.items = [v \in DOMAIN list.items \cup {url} |->
                              IF v = url
                              THEN Item(url, repoCreds[url], FALSE, FALSE)
                              ELSE list.items[v]]]
    /\ UNCHANGED <<repos, repoCreds, createdBy, call, cache, clock, deletedAt, probe>>
    /\ UNCHANGED gpgVars

\* line 144: the loop has visited every URL listed; the items are returned
ListCredsReturn ==
    /\ list.op = "creds" /\ list.pc = "lookup" /\ list.urls = {}
    /\ list' = [list EXCEPT !.pc = "done", !.response = "ok"]
    /\ UNCHANGED <<repos, repoCreds, createdBy, call, cache, clock, deletedAt, probe>>
    /\ UNCHANGED gpgVars

\* The caller has its answer and may call again.
ListAgain ==
    /\ list.pc = "done"
    /\ \A u \in RepoURLs : probe[u].pc \in {"idle", "done"}
    /\ list' = NoList
    /\ probe' = [u \in RepoURLs |-> NoProbe]
    /\ UNCHANGED <<repos, repoCreds, createdBy, call, cache, clock, deletedAt>>
    /\ UNCHANGED gpgVars

\* Time passes.
Tick ==
    /\ clock < MaxClock
    /\ clock' = clock + 1
    /\ UNCHANGED <<repos, repoCreds, createdBy, call, cache, deletedAt, list, probe>>
    /\ UNCHANGED gpgVars

\* The calls of one client, one after the other.
RepoNext ==
    \/ \E c \in SeqClients, r \in RepoInputs, upsert \in BOOLEAN : CreateBegin(c, r, upsert)
    \/ \E c \in SeqClients : CreateInsert(c)
    \/ \E c \in SeqClients : CreateExists(c)
    \/ \E c \in SeqClients, r \in RepoInputs : UpdateBegin(c, r)
    \/ \E c \in SeqClients : UpdateRepository(c)
    \/ \E c \in SeqClients, r \in FreshCredInputs, upsert \in BOOLEAN :
          CreateRepositoryCredentials(c, r, upsert)
    \/ \E c \in SeqClients : CredsExists(c)
    \/ \E c \in SeqClients, r \in FreshCredInputs : UpdateCredsBegin(c, r)
    \/ \E c \in SeqClients : UpdateRepositoryCredentials(c)
    \/ \E c \in SeqClients, url \in RepoURLs : DeleteRepository(c, url)
    \/ \E c \in SeqClients : DeleteStorage(c)
    \/ \E c \in SeqClients, url \in RepoURLs : DeleteRepositoryCredentials(c, url)
    \/ \E c \in SeqClients, url \in RepoURLs, cred \in Credentials :
          ValidateAccess(c, url, cred)
    \/ \E c \in SeqClients, url \in RepoURLs : ListApps(c, url)
    \/ \E c \in SeqClients, url \in RepoURLs : GetAppDetails(c, url)
    \/ \E c \in SeqClients : CallAgain(c)

\* ------------------------------------------------------------ specification
vars == <<gpgVars, repoVars>>

\* The key reconciler, with the repository service at rest.
Init == GpgInit /\ RepoInit /\ repoCreds = [u \in RepoURLs |-> NoRepo]

SyncNext ==
    \E p \in Callers :
        \/ SyncLocked(p)
        \/ SyncAcquire(p)
        \/ SyncListConfigured(p)
        \/ SyncListInstalled(p)
        \/ SyncCheckSecret(p)
        \/ SyncImport(p)
        \/ SyncImportsDone(p)
        \/ SyncDeleteCheck(p)
        \/ SyncDelete(p)
        \/ SyncDeletesDone(p)
        \/ SyncReturn(p)
        \/ SyncCallAgain(p)

\* Concurrent callers of SynchronizeGPGPublicKeys, and external changes of the
\* keyring.
Next ==
    \/ SyncNext
    \/ \E k \in KeyIDs : ExternalSecretKey(k)

Spec == Init /\ [][Next]_vars

\* InitializeGPGKeyRing, beside one caller of SynchronizeGPGPublicKeys and
\* external changes of the keyring.
FirstCaller == CHOOSE p \in Callers : \A q \in Callers : p <= q
InitializeNext ==
    \/ InitBegin
    \/ InitListConfigured
    \/ InitImport
    \/ InitReturn
    \/ InitCallAgain
    \/ SyncAcquire(FirstCaller)
    \/ SyncListConfigured(FirstCaller)
    \/ SyncListInstalled(FirstCaller)
    \/ SyncCheckSecret(FirstCaller)
    \/ SyncImport(FirstCaller)
    \/ SyncImportsDone(FirstCaller)
    \/ SyncDeleteCheck(FirstCaller)
    \/ SyncDelete(FirstCaller)
    \/ SyncDeletesDone(FirstCaller)
    \/ SyncReturn(FirstCaller)
    \/ SyncCallAgain(FirstCaller)
    \/ \E k \in KeyIDs : ExternalSecretKey(k)

InitSpec == Init /\ [][InitializeNext]_vars

\* One caller of SynchronizeGPGPublicKeys, call after call, beside external
\* changes of the keyring.
CallerNext ==
    \/ SyncAcquire(FirstCaller)
    \/ SyncListConfigured(FirstCaller)
    \/ SyncListInstalled(FirstCaller)
    \/ SyncCheckSecret(FirstCaller)
    \/ SyncImport(FirstCaller)
    \/ SyncImportsDone(FirstCaller)
    \/ SyncDeleteCheck(FirstCaller)
    \/ SyncDelete(FirstCaller)
    \/ SyncDeletesDone(FirstCaller)
    \/ SyncReturn(FirstCaller)
    \/ SyncCallAgain(FirstCaller)
    \/ \E k \in KeyIDs : ExternalSecretKey(k)
CallerSpec == Init /\ [][CallerNext]_vars

\* The repository service, with the key reconciler at rest.
RepoSpecInit ==
    /\ RepoInit
    /\ GpgInit
    /\ keysCM = EmptyMap
    /\ keyring = [k \in KeyIDs |-> "absent"]
RepoSpec == RepoSpecInit /\ [][RepoNext]_vars

\* The list operations: one caller of ListRepositories, whose
\* getConnectionState tasks run in parallel, and of
\* ListRepositoryCredentials, on a storage that holds any of the records
\* below, while time passes.
StoredRecord(u) ==
    Repository(u, [username |-> "alice", password |-> "pw"], FALSE, FALSE,
               ConnectionStatusSuccessful)
StoredRepos ==
    {rs \in [RepoURLs -> {NoRepo} \cup {StoredRecord(u) : u \in RepoURLs}] :
        \A u \in RepoURLs : rs[u] = NoRepo \/ rs[u].repo = u}
ListSpecInit ==
    /\ GpgInit
    /\ keysCM = EmptyMap
    /\ keyring = [k \in KeyIDs |-> "absent"]
    /\ repos \in StoredRepos
    /\ repoCreds = [u \in RepoURLs |->
                      IF repos[u] = NoRepo THEN NoRepo
                      ELSE Repository(u, CredsOf(repos[u]), FALSE, FALSE, "")]
    /\ createdBy = repos
    /\ AtRest
ListNext ==
    \/ \E forceRefresh \in BOOLEAN, allowed \in SUBSET RepoURLs :
          ListRepositories(forceRefresh, allowed)
    \/ ListLookup
    \/ ListFanOut
    \/ \E u \in RepoURLs : ProbeStart(u)
    \/ \E u \in RepoURLs : ProbeLookup(u)
    \/ \E u \in RepoURLs : ProbeSet(u)
    \/ ListJoin
    \/ \E allowed \in SUBSET RepoURLs : ListRepositoryCredentials(allowed)
    \/ ListCredsLookup
    \/ ListCredsReturn
    \/ ListAgain
    \/ Tick
ListSpec == ListSpecInit /\ [][ListNext]_vars

\* The connection-state cache: one caller of ListRepositories that is
\* allowed every URL, beside one client that deletes repositories and
\* creates one of them again, while time passes.  The storage holds one
\* repository at the start.
CachedURL == "git@x/y"
CacheSpecInit ==
    /\ GpgInit
    /\ keysCM = EmptyMap
    /\ keyring = [k \in KeyIDs |-> "absent"]
    /\ repos = [u \in RepoURLs |-> IF u = CachedURL THEN StoredRecord(u) ELSE NoRepo]
    /\ repoCreds = [u \in RepoURLs |-> NoRepo]
    /\ createdBy = repos
    /\ AtRest
CacheNext ==
    \/ \E forceRefresh \in BOOLEAN : ListRepositories(forceRefresh, RepoURLs)
    \/ ListLookup
    \/ ListFanOut
    \/ \E u \in RepoURLs : ProbeStart(u)
    \/ \E u \in RepoURLs : ProbeLookup(u)
    \/ \E u \in RepoURLs : ProbeSet(u)
    \/ ListJoin
    \/ ListAgain
    \/ \E c \in SeqClients, url \in RepoURLs : DeleteRepository(c, url)
    \/ \E c \in SeqClients : DeleteStorage(c)
    \/ \E c \in SeqClients :
          CreateBegin(c, Repository(CachedURL, CredsOf(StoredRecord(CachedURL)),
                                    FALSE, FALSE, ""), FALSE)
    \/ \E c \in SeqClients : CreateInsert(c)
    \/ \E c \in SeqClients : CreateExists(c)
    \/ \E c \in SeqClients : CallAgain(c)
    \/ Tick
CacheSpec == CacheSpecInit /\ [][CacheNext]_vars

\* The credential-set handlers: the calls of one client, one after the
\* other, with every record a request can carry, and the calls of
\* ListRepositoryCredentials by a caller who is allowed every URL, one at a
\* time, beside a second client that deletes credential sets and overwrites
\* them with records that carry no credentials, while such a call is in
\* progress.
CredsAtLeisure ==
    /\ list.pc = "idle"
    /\ \A c \in Clients : call[c].pc = "idle"
CredsNext ==
    \/ /\ CredsAtLeisure
       /\ \/ \E c \in SeqClients, r \in CredInputs, upsert \in BOOLEAN :
                CreateRepositoryCredentials(c, r, upsert)
          \/ \E c \in SeqClients, r \in CredInputs : UpdateCredsBegin(c, r)
          \/ \E c \in SeqClients, url \in RepoURLs :
                DeleteRepositoryCredentials(c, url)
          \/ ListRepositoryCredentials(RepoURLs)
    \/ \E c \in SeqClients : CredsExists(c)
    \/ \E c \in SeqClients : UpdateRepositoryCredentials(c)
    \/ \E c \in SeqClients : CallAgain(c)
    \/ /\ \/ list.pc = "lookup"
          \/ \E c \in SeqClients : call[c].pc \in {"credsExists", "updateCreds"}
       /\ \/ \E c \in Clients \ SeqClients, url \in RepoURLs :
                DeleteRepositoryCredentials(c, url)
          \/ \E c \in Clients \ SeqClients, r \in FreshCredInputs :
                ~HasCredentials(r) /\ UpdateCredsBegin(c, r)
    \/ \E c \in Clients \ SeqClients : UpdateRepositoryCredentials(c)
    \/ \E c \in Clients \ SeqClients : CallAgain(c)
    \/ ListCredsLookup
    \/ ListCredsReturn
    \/ ListAgain
CredsSpec == RepoSpecInit /\ [][CredsNext]_vars

\* Every operation of the service, called by one client, one call at a
\* time, on a storage that holds any of the records of StoredRepos at the
\* start; the getConnectionState tasks of a ListRepositories run in parallel.
AtLeisure == list.pc = "idle" /\ \A u \in RepoURLs : probe[u].pc = "idle"
\* The records the client's requests carry: for one URL, with and without
\* credentials.
ServiceInputs == {r \in FreshCredInputs : r.repo = CachedURL}
ServiceNext ==
    \/ /\ call["c1"].pc = "idle"
       /\ \/ \E forceRefresh \in BOOLEAN, allowed \in SUBSET RepoURLs :
                ListRepositories(forceRefresh, allowed)
          \/ \E allowed \in SUBSET RepoURLs : ListRepositoryCredentials(allowed)
    \/ ListLookup
    \/ ListFanOut
    \/ \E u \in RepoURLs : ProbeStart(u)
    \/ \E u \in RepoURLs : ProbeLookup(u)
    \/ \E u \in RepoURLs : ProbeSet(u)
    \/ ListJoin
    \/ ListCredsLookup
    \/ ListCredsReturn
    \/ ListAgain
    \/ /\ AtLeisure
       /\ \/ \E r \in ServiceInputs, upsert \in BOOLEAN : CreateBegin("c1", r, upsert)
          \/ \E r \in ServiceInputs : UpdateBegin("c1", r)
          \/ \E r \in ServiceInputs, upsert \in BOOLEAN :
                CreateRepositoryCredentials("c1", r, upsert)
          \/ \E r \in ServiceInputs : UpdateCredsBegin("c1", r)
          \/ DeleteRepository("c1", CachedURL)
          \/ DeleteRepositoryCredentials("c1", CachedURL)
          \/ \E cred \in Credentials : ValidateAccess("c1", CachedURL, cred)
          \/ ListApps("c1", CachedURL)
          \/ GetAppDetails("c1", CachedURL)
    \/ CreateInsert("c1")
    \/ CreateExists("c1")
    \/ UpdateRepository("c1")
    \/ CredsExists("c1")
    \/ UpdateRepositoryCredentials("c1")
    \/ DeleteStorage("c1")
    \/ CallAgain("c1")
ServiceSpec == ListSpecInit /\ [][ServiceNext]_vars

\* Concurrent clients of CreateRepository, each making one call, on a
\* storage that holds no repository at the start.
RaceSpecInit ==
    /\ GpgInit
    /\ keysCM = EmptyMap
    /\ keyring = [k \in KeyIDs |-> "absent"]
    /\ RepoInit
    /\ repoCreds = [u \in RepoURLs |-> NoRepo]
RaceNext ==
    \/ \E c \in Clients, r \in RepoInputs, upsert \in BOOLEAN : CreateBegin(c, r, upsert)
    \/ \E c \in Clients : CreateInsert(c)
    \/ \E c \in Clients : CreateExists(c)
    \/ \E c \in Clients : UpdateRepository(c)
RaceSpec == RaceSpecInit /\ [][RaceNext]_vars

\* Repeated calls of SynchronizeGPGPublicKeys by one caller, with no external
\* change of the keyring.  The successful outcome of each call the function
\* makes to the ConfigMap or to gpg:
ListConfiguredOk(p) == SyncListConfigured(p) /\ pc'[p] = "listInstalled"
ListInstalledOk(p) == SyncListInstalled(p) /\ pc'[p] # "return"
CheckSecretOk(p, k) == SyncCheckSecret(p) /\ k \in attempt[p].unchecked
                                          /\ k \notin attempt'[p].unchecked
                                          /\ pc'[p] # "return"
ImportOk(p, k) == SyncImport(p) /\ k \notin attempt[p].imported
                                /\ k \in attempt'[p].imported
DeleteCheckOk(p, k) == SyncDeleteCheck(p) /\ attempt'[p].deleting = k
DeleteOk(p, k) == SyncDelete(p) /\ k \notin attempt[p].deleted
                                /\ k \in attempt'[p].deleted
LiveNext ==
    \/ SyncAcquire(FirstCaller)
    \/ SyncListConfigured(FirstCaller)
    \/ SyncListInstalled(FirstCaller)
    \/ SyncCheckSecret(FirstCaller)
    \/ SyncImport(FirstCaller)
    \/ SyncImportsDone(FirstCaller)
    \/ SyncDeleteCheck(FirstCaller)
    \/ SyncDelete(FirstCaller)
    \/ SyncDeletesDone(FirstCaller)
    \/ SyncReturn(FirstCaller)
    \/ SyncCallAgain(FirstCaller)
\* The caller keeps running and calling, and no import and no deletion fails
\* forever: one that can succeed again and again eventually does.  Nothing
\* makes the reads (of the ConfigMap, of the installed keys, of a key's
\* secret status) succeed: each may fail on every call.
LiveSpec ==
    /\ Init
    /\ [][LiveNext]_vars
    /\ WF_vars(LiveNext)
    /\ \A k \in KeyIDs : /\ SF_vars(ImportOk(FirstCaller, k))
                         /\ SF_vars(DeleteOk(FirstCaller, k))

\* ------------------------------------------------------------------- claims
\* The declared key set D of a ConfigMap whose entries are all well-formed
\* (empty for a ConfigMap that ListConfiguredGPGPublicKeys rejects).
Declared == DOMAIN ListConfiguredGPGPublicKeys(keysCM, FALSE).keys

\* An entry the spec calls invalid, stated from the spec's words: its name is
\* no key ID, its data does not validate, holds other than exactly one key,
\* or holds another key than the one the entry names.
BadEntry(n, d) ==
    \/ n \notin KeyIDs
    \/ ~d.valid
    \/ Len(d.keys) # 1
    \/ d.keys[1] # n
ConfigBad == \E n \in DOMAIN keysCM : BadEntry(n, keysCM[n])

\* C1: at most one SynchronizeGPGPublicKeys is between the acquisition of the
\* semaphore and its release; while one is, the semaphore cannot be acquired,
\* so an overlapping call is rejected at once; and a call rejected with the
\* "locked" error has read nothing from the keyring, imported nothing and
\* deleted nothing.
C1_MutualExclusion ==
    /\ Cardinality({p \in Callers : InBody(p)}) <= 1
    /\ (\E q \in Callers : InBody(q)) => ~TryAcquire(syncSemaphore)
    /\ \A p \in Callers :
         result[p] = "locked" =>
            /\ pc[p] = "done"
            /\ ~hist[p].touched
            /\ attempt[p] = NoAttempt
            /\ installedKeys[p] = {}
C1_Witness ==
    \E p, q \in Callers :
        /\ result[p] = "locked"
        /\ pc[q] \in {"import", "delete"}
        /\ hist[q].touched

\* C2: whenever no SynchronizeGPGPublicKeys is executing the semaphore is
\* free (it was released on every exit path, the error returns included),
\* so the next call acquires it.
C2_LockReleased ==
    (\A p \in Callers : ~InBody(p)) =>
        /\ syncSemaphore = 0
        /\ TryAcquire(syncSemaphore)
C2_Witness ==
    \E p, q \in Callers :
        /\ pc[p] = "done" /\ result[p] = "error"
        /\ pc[q] = "listConfigured"

\* C3: DeletePGPKey is never called for a key that is secret in the keyring
\* at the time of the call; a key listed as non-secret that is secret, or
\* whose IsSecretKey check fails, when the removal loop reaches it is skipped
\* and the call still returns nil.  (delSecret records that DeletePGPKey was
\* called for a key that was secret when it was called.)
C3_SecretNeverDeleted ==
    \A p \in Callers :
        /\ ~hist[p].delSecret
        /\ (pc[p] = "return" /\ attempt[p].deleteSkipped # {}) => result[p] = "nil"
        /\ \A k \in attempt[p].deleted \cup attempt[p].deleteFailed :
              k \in installedKeys[p] /\ k \notin DOMAIN configuredKeys[p]

\* C4 as the spec states it: after a call that returned nil (no external
\* change of the keyring during the call), the non-secret keys of the keyring
\* are D minus the keys whose import failed.
C4_Original ==
    \A p \in Callers :
        (pc[p] = "return" /\ result[p] = "nil" /\ ~hist[p].ext) =>
            PublicKeys(keyring) = DOMAIN configuredKeys[p] \ attempt[p].importFailed

\* C4, amended: after a call that returned nil (no external change of the
\* keyring during the call), the non-secret keys of the keyring are D minus
\* the keys whose import failed and minus the declared keys the keyring holds
\* as secret keys, plus the undeclared installed keys whose deletion failed or
\* was skipped because the secret-key check failed.
C4_Convergence ==
    \A p \in Callers :
        (pc[p] = "return" /\ result[p] = "nil" /\ ~hist[p].ext) =>
            PublicKeys(keyring) =
                ((DOMAIN configuredKeys[p] \ attempt[p].importFailed) \ SecretKeys(keyring))
                \cup attempt[p].deleteFailed \cup attempt[p].deleteSkipped
C4_Witness ==
    \E p \in Callers :
        /\ pc[p] = "return" /\ result[p] = "nil" /\ ~hist[p].ext
        /\ attempt[p].importFailed # {}
        /\ attempt[p].deleteFailed # {}
        /\ PublicKeys(keyring) # DOMAIN configuredKeys[p]

\* C5 as the spec states it: a call that follows a fully successful call,
\* with no external change of the keyring since, calls neither import nor
\* delete and leaves the keyring as it was.
NoCalls(p) ==
    /\ attempt[p].imported = {} /\ attempt[p].importFailed = {}
    /\ attempt[p].deleted = {} /\ attempt[p].deleteFailed = {}
C5_Original ==
    \A p \in Callers :
        (pc[p] = "return" /\ hist[p].followsClean /\ ~hist[p].ext) =>
            NoCalls(p) /\ keyring = hist[p].atAcquire

\* C5, amended: the same, provided no declared key is held in the keyring as
\* a secret key.
C5_RepeatIsNoOp ==
    \A p \in Callers :
        (/\ pc[p] = "return" /\ hist[p].followsClean /\ ~hist[p].ext
         /\ Declared \cap SecretKeys(keyring) = {}) =>
            NoCalls(p) /\ keyring = hist[p].atAcquire
C5_Witness ==
    \E p \in Callers :
        /\ pc[p] = "return" /\ result[p] = "nil"
        /\ hist[p].followsClean /\ ~hist[p].ext
        /\ Declared # {}
        /\ installedKeys[p] = Declared

\* C6 as the spec states it: with a valid D, under repeated calls in which no
\* import and no deletion fails forever, the keyring eventually reaches and
\* keeps the state whose non-secret keys are exactly D.
C6_Original == ~ConfigBad => <>[](PublicKeys(keyring) = Declared)

\* No read the call makes fails forever: the loading of the declared keys,
\* the listing of the installed keys, and the secret-status check of a key in
\* the listing and in the removal loop each succeed eventually when they can
\* succeed again and again.
NoReadFailsForever ==
    /\ SF_vars(ListConfiguredOk(FirstCaller))
    /\ SF_vars(ListInstalledOk(FirstCaller))
    /\ \A k \in KeyIDs : /\ SF_vars(CheckSecretOk(FirstCaller, k))
                         /\ SF_vars(DeleteCheckOk(FirstCaller, k))

\* C6, amended: the same, provided no declared key is held in the keyring as
\* a secret key and no read the call makes (of the ConfigMap, of the
\* installed keys, of a key's secret status) fails forever either.
C6_EventuallyConsistent ==
    (~ConfigBad /\ Declared \cap SecretKeys(keyring) = {} /\ NoReadFailsForever)
        => <>[](PublicKeys(keyring) = Declared)
C6_Witness ==
    /\ ~ConfigBad
    /\ PublicKeys(keyring) = Declared
    /\ \E p \in Callers :
         /\ pc[p] = "return"
         /\ attempt[p].imported # {}
         /\ attempt[p].deleted # {}
         /\ hist[p].atAcquire # << >>
         /\ \E k \in Declared : hist[p].atAcquire[k] = "absent"

\* C7: a ConfigMap with an invalid entry never gets past the loading of the
\* declared keys (the entry is not skipped), and a call that returns an
\* error - for a bad entry, or because the installed keys could not be
\* listed - has called neither import nor delete and has left the keyring as
\* it was.
C7_LoadErrorsAreFatal ==
    \A p \in Callers :
        /\ pc[p] \in {"listInstalled", "checkSecret", "import", "delete"} => ~ConfigBad
        /\ (pc[p] = "return" /\ ConfigBad) => result[p] = "error"
        /\ (pc[p] = "return" /\ ~hist[p].loaded) => result[p] = "error"
        /\ (pc[p] = "return" /\ result[p] = "error") =>
              /\ attempt[p] = NoAttempt
              /\ hist[p].ext \/ keyring = hist[p].atAcquire
C7_Witness ==
    \E p \in Callers :
        /\ pc[p] = "return" /\ result[p] = "error"
        /\ ConfigBad
        /\ \E k \in KeyIDs : keyring[k] = "public" /\ k \notin DOMAIN keysCM

\* C8: once both key sets are loaded the call returns nil, whatever imports
\* and deletions failed, and when it returns every key of the import set and
\* of the delete set has been attempted.
C8_BestEffort ==
    \A p \in Callers :
        /\ hist[p].loaded => result[p] \in {"none", "nil"}
        /\ (hist[p].loaded /\ pc[p] = "return") =>
              /\ result[p] = "nil"
              /\ attempt[p].imported \cup attempt[p].importFailed
                    = {k \in DOMAIN configuredKeys[p] : k \notin installedKeys[p]}
              /\ attempt[p].deleted \cup attempt[p].deleteFailed
                    \cup attempt[p].deleteSkipped
                    = {k \in installedKeys[p] : k \notin DOMAIN configuredKeys[p]}
C8_Witness ==
    \E p \in Callers :
        /\ pc[p] = "return" /\ result[p] = "nil"
        /\ attempt[p].importFailed # {}
        /\ attempt[p].imported # {}

\* C9: InitializeGPGKeyRing imports every declared key, installed or not; a
\* failed import ends the call at once with an error; when it returns
\* without error every declared key was imported and is in the keyring.
C9_InitializeImportsAll ==
    /\ (initPc = "done" /\ initResult = "ok") =>
          /\ initImported = Declared
          /\ \A k \in Declared : keyring[k] # "absent"
    /\ initFailed # NoKey => (initPc = "done" /\ initResult = "errImport")
    /\ initImported \subseteq Declared
C9_Witness ==
    /\ initPc = "done" /\ initResult = "ok"
    /\ initImported = KeyIDs
    /\ \E k \in KeyIDs : keyring[k] = "secret"

\* C10: a Create(r, upsert=false) that follows a successful Create of the
\* same content for the same URL (no other write of that record in between)
\* never returns the conflict error: unless the authorization, the
\* credentials lookup, the connection test or the storage fails, it returns
\* the record's URL with no error, as the first call did, and it leaves the
\* stored record as it was.
C10_CreateIdempotent ==
    \A c \in Clients :
        (/\ call[c].pc = "done" /\ call[c].op = "create" /\ ~call[c].upsert
         /\ call[c].follows /\ ~call[c].interfered) =>
            /\ call[c].response.kind \in
                  {"ok", "PermissionDenied", "CredentialsError", "ProbeFailed",
                   "StorageError", "Internal"}
            /\ call[c].response.kind = "ok" => call[c].response = OkResponse(call[c].r.repo)
            /\ ~call[c].wrote
            /\ SentBefore(repos[call[c].r.repo], call[c].r)
            /\ createdBy[call[c].r.repo] = repos[call[c].r.repo]
C10_Witness ==
    \E c \in Clients :
        /\ call[c].pc = "done" /\ call[c].op = "create" /\ ~call[c].upsert
        /\ call[c].follows /\ ~call[c].interfered
        /\ call[c].response = OkResponse(call[c].r.repo)
        /\ repos[call[c].r.repo].connectionState = ConnectionStatusSuccessful
        /\ HasCredentials(call[c].r)

\* The stored record differed in content from the request's record when the
\* call of client c began (the connection state is not content).
ExistingDiffers(c) ==
    /\ call[c].before # NoRepo
    /\ ~SentBefore(call[c].before, call[c].r)
\* The call of client c ended before the comparison with the stored record:
\* the "create" check, the credentials lookup, the connection test,
\* s.db.CreateRepository or s.db.GetRepository failed.
EndedEarly(c) ==
    \/ call[c].denied
    \/ call[c].response.kind \in {"CredentialsError", "ProbeFailed", "Internal"}
    \/ call[c].response = ErrResponse("StorageError")

\* C11: a Create(r, upsert=true) that finds a stored record of different
\* content (and does not fail before the comparison) runs UpdateRepository
\* on r: it returns what UpdateRepository returns for r, never the conflict
\* error, and the stored record is what UpdateRepository leaves - r, the new
\* content, when it succeeds.
C11_UpsertIsUpdate ==
    \A c \in Clients :
        (/\ call[c].pc = "done" /\ call[c].op = "create" /\ call[c].upsert
         /\ ExistingDiffers(c) /\ ~call[c].interfered /\ ~EndedEarly(c)) =>
            /\ call[c].upd # << >>
            /\ LET res == UpdateResult(call[c].r, call[c].upd.allowed,
                                       call[c].upd.dbErr, call[c].before)
               IN  /\ call[c].response = res.response
                   /\ repos[call[c].r.repo] = res.stored
            /\ call[c].response.kind = "ok" =>
                  /\ repos[call[c].r.repo] = call[c].r
                  /\ SentBefore(call[c].r, repos[call[c].r.repo])
                  /\ call[c].response = OkResponse(call[c].r.repo)
C11_Witness ==
    \E c \in Clients :
        /\ call[c].pc = "done" /\ call[c].op = "create" /\ call[c].upsert
        /\ ExistingDiffers(c) /\ ~call[c].interfered
        /\ call[c].response = OkResponse(call[c].r.repo)
        /\ call[c].wrote
        /\ repos[call[c].r.repo].username # call[c].before.username

\* C12: a Create(r, upsert=false) that finds a stored record of different
\* content (the connection state aside) never succeeds and leaves the
\* stored record as it was; unless it fails before the comparison it
\* returns the InvalidArgument error "existing repository spec is
\* different; use upsert flag to force update".
C12_ConflictRejected ==
    \A c \in Clients :
        (/\ call[c].pc = "done" /\ call[c].op = "create" /\ ~call[c].upsert
         /\ ExistingDiffers(c) /\ ~call[c].interfered) =>
            /\ call[c].response.kind # "ok"
            /\ ~EndedEarly(c) => call[c].response = ErrResponse("InvalidArgument")
            /\ ~call[c].wrote
            /\ repos[call[c].r.repo] = call[c].before
            /\ call[c].upd = << >>
C12_Witness ==
    \E c \in Clients :
        /\ call[c].pc = "done" /\ call[c].op = "create" /\ ~call[c].upsert
        /\ ExistingDiffers(c) /\ ~call[c].interfered
        /\ call[c].response = ErrResponse("InvalidArgument")
        /\ call[c].probed = "ok"
        /\ call[c].before.connectionState # call[c].r.connectionState

\* The operations C13 names.
NonListOps == {"create", "createCreds", "update", "updateCreds", "delete",
               "deleteCreds", "validate", "listApps", "appDetails"}

\* C13: a call of a non-list operation whose action the oracle denies at the
\* head of the handler returns the permission error and has made no call of
\* the storage, no connection test and no write of the cache, and has
\* changed neither the storage nor the cache.
C13_DeniedTouchesNothing ==
    \A c \in Clients :
        call[c].denied =>
            /\ call[c].op \in NonListOps
            /\ call[c].pc = "done"
            /\ call[c].response = ErrResponse("PermissionDenied")
            /\ call[c].did = {}
            /\ call[c].probed = "no"
            /\ ~call[c].wrote
            /\ call[c].op \in {"create", "update", "delete"} =>
                   repos[call[c].r.repo] = call[c].before
            /\ call[c].op \in {"createCreds", "updateCreds", "deleteCreds"} =>
                   repoCreds[call[c].r.repo] = call[c].before
C13_Witness ==
    \E c \in Clients :
        /\ call[c].denied
        /\ call[c].op = "delete"
        /\ call[c].before # NoRepo
        /\ repos[call[c].r.repo] = call[c].before

\* C15: a Create or ValidateAccess whose connection test failed returns
\* that error, and the Create has then neither called s.db.CreateRepository
\* nor changed the stored record; and whenever a record appears in the
\* storage for a URL that had none, a Create whose connection test succeeded
\* has just inserted it.
ProbeFailureIsFatal ==
    \A c \in Clients :
        /\ call[c].probed # "no" => call[c].op \in {"create", "validate"}
        /\ call[c].probed = "failed" =>
              /\ call[c].pc = "done"
              /\ call[c].response = ErrResponse("ProbeFailed")
              /\ ~call[c].wrote
              /\ call[c].upd = << >>
              /\ call[c].op = "create" =>
                    /\ repos[call[c].r.repo] = call[c].before
                    /\ call[c].did \subseteq {"storage", "probe"}
                    /\ "storage" \in call[c].did => ~HasCredentials(call[c].r)
InsertedAfterProbe ==
    \A u \in RepoURLs :
        (repos[u] = NoRepo /\ repos'[u] # NoRepo) =>
            \E c \in Clients :
                /\ call[c].op = "create" /\ call[c].pc = "insert"
                /\ call[c].probed = "ok"
                /\ call[c].r = repos'[u]
                /\ call'[c].pc = "done"
C15_ProbeFailureAborts == []ProbeFailureIsFatal /\ [][InsertedAfterProbe]_vars
C15_Witness ==
    \E c, d \in Clients :
        /\ call[c].op = "create" /\ call[c].probed = "failed"
        /\ call[c].response = ErrResponse("ProbeFailed")
        /\ repos[call[c].r.repo] = NoRepo
        /\ \E u \in RepoURLs : repos[u] # NoRepo /\ createdBy[u] = repos[u]


\* The URLs the storage holds for a list operation.
StoredURLs(op) ==
    IF op = "creds" THEN {u \in RepoURLs : repoCreds[u] # NoRepo}
                    ELSE {u \in RepoURLs : repos[u] # NoRepo}

\* C14: ListRepositories and ListRepositoryCredentials never fail because
\* the oracle denies "get": a URL that is denied is left out of the result,
\* its record is not asked of the storage and no getConnectionState task is
\* started for it; a call that ends does so with a result or with an error
\* of the storage, and a result holds exactly the stored URLs that are
\* allowed.
C14_ListFilters ==
    /\ \A u \in RepoURLs \ list.allowed :
          /\ u \notin list.looked
          /\ u \notin DOMAIN list.items
          /\ probe[u].pc = "idle"
    /\ list.pc = "done" => list.response \in {"ok", "StorageError"}
    /\ (list.pc = "done" /\ list.response = "ok") =>
          DOMAIN list.items = StoredURLs(list.op) \cap list.allowed
C14_Witness ==
    /\ list.op = "repos" /\ list.pc = "done" /\ list.response = "ok"
    /\ StoredURLs("repos") \ list.allowed # {}
    /\ DOMAIN list.items # {}

\* The step of DeleteRepository that follows its authorization check keeps
\* no entry of the URL in the cache, unless the cache failed.
InvalidatesEntry ==
    \A c \in Clients :
        (call[c].pc = "idle" /\ call'[c].pc = "deleteStorage") =>
            \/ call'[c].cacheErr
            \/ cache'[call'[c].r.repo] = NoState
\* An authorized DeleteRepository that has returned called the cache and
\* then the storage, and answered with no error when the storage deleted
\* the record.
DeleteAttempted ==
    \A c \in Clients :
        (call[c].op = "delete" /\ call[c].pc = "done" /\ ~call[c].denied) =>
            /\ call[c].did = {"cache", "storage"}
            /\ call[c].response.kind \in {"ok", "StorageError"}
            /\ call[c].wrote => call[c].response = EmptyResponse

\* C16: once DeleteRepository(url) is authorized, the cache entry of url is
\* cleared and the storage delete is called; when the invalidation fails the
\* storage delete is still called, and a delete that succeeds is answered
\* without error.
C16_DeleteInvalidates == []DeleteAttempted /\ [][InvalidatesEntry]_vars
C16_Witness ==
    \E c \in Clients :
        /\ call[c].op = "delete" /\ call[c].pc = "done"
        /\ call[c].cacheErr /\ call[c].wrote
        /\ call[c].response = EmptyResponse
        /\ cache[call[c].r.repo] # NoState

\* C17: once DeleteRepository(url) has completed, a getConnectionState
\* task for url that is given forceRefresh = false and returns the cached
\* state returns one whose modifiedAt is not before the delete, whatever
\* ListRepositories did meanwhile.
C17_NoStateFromBeforeDelete ==
    [][\A u \in RepoURLs :
          (/\ probe[u].pc = "start" /\ ~probe[u].forceRefresh
           /\ probe'[u].pc = "done" /\ probe'[u].hit
           /\ deletedAt[u].done)
          => probe'[u].state.modifiedAt >= deletedAt[u].at]_vars

\* A getConnectionState task that returned the cached state: it was given
\* forceRefresh = false, it found an entry, the state it returns is the
\* entry, and it called neither the storage, nor git.TestRepo, nor the
\* cache's setter.
ServedFromCache(u) ==
    /\ ~probe[u].forceRefresh /\ probe[u].found
    /\ probe[u].state = cache[u] /\ cache[u] # NoState
    /\ ~probe[u].lookedUp /\ ~probe[u].tested /\ ~probe[u].setCache
\* The task has returned and was to use the cache.
ReturnedCached(u) ==
    probe[u].pc = "done" /\ ~probe[u].forceRefresh /\ probe[u].found
\* The task has returned and was not to use the cache.
ReturnedComputed(u) ==
    probe[u].pc = "done" /\ (probe[u].forceRefresh \/ ~probe[u].found)

\* C18 (as stated): getConnectionState with forceRefresh = false and an entry
\* in the cache returns that entry and calls neither the storage, nor
\* git.TestRepo, nor the cache's setter; with forceRefresh = true or no entry
\* it always calls the storage and git.TestRepo.
C18_AlwaysLooksUpAndTests ==
    \A u \in RepoURLs :
        /\ ReturnedCached(u) => probe[u].hit /\ ServedFromCache(u)
        /\ ReturnedComputed(u) => probe[u].lookedUp /\ probe[u].tested

\* C18 (amended): getConnectionState with forceRefresh = false and an entry
\* in the cache returns that entry and calls neither the storage, nor
\* git.TestRepo, nor the cache's setter; with forceRefresh = true or no entry
\* it always calls the storage, and calls git.TestRepo exactly when the
\* storage returned the record.
C18_CacheHitOrLookup ==
    \A u \in RepoURLs :
        /\ ReturnedCached(u) => probe[u].hit /\ ServedFromCache(u)
        /\ ReturnedComputed(u) =>
              /\ ~probe[u].hit /\ probe[u].lookedUp
              /\ probe[u].tested <=> probe[u].lookupOk
C18_Witness ==
    \E u, v \in RepoURLs :
        /\ ReturnedCached(u) /\ probe[u].hit
        /\ ReturnedComputed(v) /\ probe[v].lookedUp
        /\ ~probe[v].lookupOk /\ ~probe[v].tested

\* The getConnectionState task for u has called the storage and, if it got
\* the record, git.TestRepo.
Computed(u) == probe[u].pc \in {"set", "done"} /\ probe[u].lookedUp

\* C19: the state a getConnectionState task computes is Successful with an
\* empty message iff the storage returned the record and git.TestRepo
\* succeeded, and Failed with a message otherwise, in both cases with the
\* time the task took as modifiedAt; a failure to connect does not make the
\* task fail, and ListRepositories returns the item with the Failed state.
C19_ProbeStateReflectsOutcome ==
    /\ \A u \in RepoURLs :
          Computed(u) =>
            /\ probe[u].state.modifiedAt = probe[u].now
            /\ probe[u].now <= clock
            /\ (probe[u].lookupOk /\ probe[u].testOk) <=>
                  (probe[u].state.status = ConnectionStatusSuccessful)
            /\ probe[u].state.status = ConnectionStatusSuccessful =>
                  probe[u].state.message = ""
            /\ probe[u].state.status # ConnectionStatusSuccessful =>
                  /\ probe[u].state.status = ConnectionStatusFailed
                  /\ probe[u].state.message # ""
            /\ (probe[u].tested /\ ~probe[u].testOk) => ~probe[u].failed
    /\ \A u \in RepoURLs :
          (list.pc = "done" /\ probe[u].tested /\ ~probe[u].testOk) =>
            /\ list.response = "ok"
            /\ list.items[u].connectionState = probe[u].state
C19_Witness ==
    \E u \in RepoURLs :
        /\ list.pc = "done" /\ list.response = "ok"
        /\ probe[u].tested /\ ~probe[u].testOk
        /\ list.items[u].connectionState =
              ConnectionState(ConnectionStatusFailed, UnableToConnect, 1)

\* The getConnectionState task for u asked the storage for the record and
\* did not get it.
LookupFailed(u) == Computed(u) /\ ~probe[u].lookupOk

\* C20 (as stated): when s.db.GetRepository fails inside getConnectionState,
\* the call fails with that error instead of returning a Failed state.
C20_LookupErrorPropagated ==
    \A u \in RepoURLs :
        LookupFailed(u) =>
            /\ probe[u].failed
            /\ probe[u].state.status # ConnectionStatusFailed

\* C20 (amended): when s.db.GetRepository fails inside getConnectionState,
\* the call does not fail: it returns a Failed state with a message, as it
\* does when git.TestRepo fails, without calling git.TestRepo, and
\* ListRepositories returns the item with that state.  ListRepositories
\* fails only on its own calls of the storage, before any task is started.
C20_LookupErrorCaptured ==
    /\ \A u \in RepoURLs :
          LookupFailed(u) =>
            /\ ~probe[u].failed /\ ~probe[u].tested
            /\ probe[u].state =
                  ConnectionState(ConnectionStatusFailed, UnableToConnect, probe[u].now)
            /\ list.pc = "done" =>
                  /\ list.response = "ok"
                  /\ list.items[u].connectionState = probe[u].state
    /\ (list.op = "repos" /\ list.pc = "done" /\ list.response # "ok") =>
          \A u \in RepoURLs : probe[u] = NoProbe
C20_Witness ==
    \E u \in RepoURLs :
        /\ LookupFailed(u)
        /\ list.pc = "done" /\ list.response = "ok"
        /\ list.items[u].connectionState.status = ConnectionStatusFailed

\* C21: the fan-out of ListRepositories runs one getConnectionState task
\* for each item, that is for each stored URL the caller may get, and none
\* for another URL; when ListRepositories returns its items every task has
\* returned and each item carries the state its own task returned.
C21_FanOutJoins ==
    /\ (list.op = "repos" /\ list.pc = "probing") =>
          \A u \in RepoURLs : probe[u].pc # "idle" <=> u \in DOMAIN list.items
    /\ (list.op = "repos" /\ list.pc = "done" /\ list.response = "ok") =>
          /\ DOMAIN list.items = list.listed \cap list.allowed
          /\ \A u \in DOMAIN list.items :
                /\ probe[u].pc = "done"
                /\ probe[u].state # NoState
                /\ list.items[u].connectionState = probe[u].state
          /\ \A u \in RepoURLs \ DOMAIN list.items : probe[u] = NoProbe
C21_Witness ==
    /\ list.op = "repos" /\ list.pc = "done" /\ list.response = "ok"
    /\ DOMAIN list.items = RepoURLs
    /\ \E u, v \in RepoURLs :
          /\ list.items[u].connectionState.status = ConnectionStatusSuccessful
          /\ list.items[v].connectionState.status = ConnectionStatusFailed
          /\ probe[u].hit /\ ~probe[v].hit

C23_CancelAbortsProbe ==
    /\ \A c \in Clients :
          call[c].cancelled =>
            /\ call[c].probed # "ok"
            /\ call[c].pc = "done" => call[c].response = ErrResponse("Canceled")
    /\ \A u \in RepoURLs :
          probe[u].cancelled => ~probe[u].testOk /\ probe[u].failed

\* Clients c and d have both returned from a CreateRepository without
\* upsert for the same URL, with requests that differ, each after a
\* successful test, and the storage failed for neither.
RacedCreates(c, d) ==
    /\ c # d
    /\ call[c].op = "create" /\ call[d].op = "create"
    /\ call[c].pc = "done" /\ call[d].pc = "done"
    /\ ~call[c].upsert /\ ~call[d].upsert
    /\ call[c].r.repo = call[d].r.repo
    /\ call[c].r # call[d].r
    /\ call[c].probed = "ok" /\ call[d].probed = "ok"
    /\ {call[c].response.kind, call[d].response.kind}
          \cap {"StorageError", "Internal"} = {}

\* C24: of two concurrent CreateRepository calls without upsert for the same
\* URL with differing content, one succeeds and the other gets the conflict
\* error, and the stored record is the request of the one that succeeded.
C24_OneCreateWins ==
    \A c, d \in Clients :
        RacedCreates(c, d) =>
            \E w \in {c, d} :
                LET l == CHOOSE x \in {c, d} : x # w
                IN  /\ call[w].response = OkResponse(call[w].r.repo)
                    /\ call[l].response = ErrResponse("InvalidArgument")
                    /\ repos[call[w].r.repo] = call[w].r
                    /\ ~call[l].wrote
C24_Witness ==
    \E c, d \in Clients :
        /\ RacedCreates(c, d)
        /\ call[c].response = OkResponse(call[c].r.repo)
        /\ call[d].interfered
        /\ call[d].response = ErrResponse("InvalidArgument")

\* C25: CreateRepositoryCredentials treats an existing record as Create
\* does: when the stored credential record has the content of the request
\* (the connection state aside, as for Create) the call succeeds with the
\* record's URL and writes nothing; when the content differs it runs
\* UpdateRepositoryCredentials if upsert is set and otherwise returns the
\* conflict error, leaving the stored record as it was; it never calls
\* git.TestRepo.
C25_CredsCreateAsCreate ==
    \A c \in Clients :
        (/\ call[c].op = "createCreds" /\ call[c].pc = "done"
         /\ ~call[c].denied /\ call[c].before # NoRepo
         /\ call[c].response.kind \notin {"StorageError", "Internal"}) =>
            /\ "probe" \notin call[c].did
            /\ IF SentBefore(call[c].before, call[c].r)
               THEN /\ call[c].response = OkResponse(call[c].r.repo)
                    /\ call[c].upd = << >>
                    /\ repoCreds[call[c].r.repo] = call[c].before
               ELSE IF call[c].upsert
               THEN call[c].upd # << >>
               ELSE /\ call[c].response = ErrResponse("InvalidArgument")
                    /\ repoCreds[call[c].r.repo] = call[c].before

\* C26: SynchronizeGPGPublicKeys calls the import only for declared keys
\* that are not in the non-secret installed set it listed, and calls
\* DeletePGPKey only for keys of that set that are not declared: no declared
\* key is deleted and no key listed as installed is imported again.
C26_ImportAndDeleteSets ==
    \A p \in Callers :
        attempt[p] # NoAttempt =>
            LET imports == attempt[p].imported \cup attempt[p].importFailed
                deletes == attempt[p].deleted \cup attempt[p].deleteFailed
                             \cup attempt[p].deleteSkipped
                declared == Declared
            IN  /\ imports \subseteq declared \ installedKeys[p]
                /\ deletes \subseteq installedKeys[p] \ declared
                /\ imports \cap deletes = {}
C26_Witness ==
    \E p \in Callers :
        /\ pc[p] = "return" /\ result[p] = "nil"
        /\ attempt[p].imported # {} /\ attempt[p].deleted # {}
        /\ installedKeys[p] # {}

\* A key enters the listing only in the iteration that asks IsSecretKey about
\* it, and only when the keyring reports it as not secret in that call.
ListsKeysCheckedPublic ==
    \A p \in Callers :
        \A k \in installedKeys'[p] \ installedKeys[p] :
            /\ pc[p] = "checkSecret"
            /\ k = NextListed(attempt[p].unchecked)
            /\ ~IsSecretKey(keyring, k)
\* The listing of a keyring that nothing changed while it was read holds the
\* keys of the keyring that are not secret, and only those.
ListsPublicKeysOnly ==
    \A p \in Callers :
        (pc[p] = "import" /\ attempt[p] = NoAttempt /\ ~hist[p].ext) =>
            /\ installedKeys[p] \cap SecretKeys(keyring) = {}
            /\ installedKeys[p] = PublicKeys(keyring)
\* A caller for which IsSecretKey failed on an installed key during the
\* listing got an error and no listing, and went no further.
SecretCheckErrorIsFatal ==
    \A p \in Callers :
        hist[p].secErr =>
            /\ pc[p] = "return" /\ result[p] = "error"
            /\ installedKeys[p] = {}
            /\ attempt[p] = NoAttempt

\* C27: the listing ListInstalledGPGPublicKeys returns holds no key that the
\* keyring reported as secret when the listing asked (IsSecretKey, once per
\* key): a key is listed only if that call answered "not secret", the listing
\* of a keyring left alone meanwhile is exactly its non-secret keys, and when
\* IsSecretKey fails for an installed key the listing fails as a whole: an
\* error and no keys.
C27_ListingHasNoSecretKey ==
    /\ []SecretCheckErrorIsFatal
    /\ []ListsPublicKeysOnly
    /\ [][ListsKeysCheckedPublic]_vars
C27_Witness ==
    \E p \in Callers :
        /\ pc[p] = "import" /\ installedKeys[p] # {}
        /\ attempt[p] = NoAttempt /\ ~hist[p].ext
        /\ SecretKeys(keyring) # {}
        /\ installedKeys[p] = PublicKeys(keyring)

\* C28: a CreateRepository whose record carries no credentials looks up the
\* stored credential set of the URL before it tests, tests with the
\* credentials of that set, and when the lookup fails returns its error
\* having neither tested nor written; one whose record carries credentials
\* tests with exactly those and looks nothing up before the test.
C28_ProbeCredentials ==
    \A c \in Clients :
        call[c].op = "create" =>
            /\ call[c].probed # "no" =>
                  /\ call[c].probeCreds =
                        IF HasCredentials(call[c].r)
                        THEN CredsOf(call[c].r)
                        ELSE CredsOf(repoCreds[call[c].r.repo])
                  /\ (~HasCredentials(call[c].r)) => "storage" \in call[c].did
                  /\ (HasCredentials(call[c].r) /\ call[c].pc = "insert") =>
                        call[c].did = {"probe"}
            /\ call[c].response = ErrResponse("CredentialsError") =>
                  /\ ~HasCredentials(call[c].r)
                  /\ call[c].probed = "no" /\ call[c].did = {"storage"}
                  /\ ~call[c].wrote
                  /\ repos[call[c].r.repo] = call[c].before
C28_Witness ==
    \E c \in Clients :
        /\ call[c].op = "create" /\ call[c].pc = "done"
        /\ call[c].response = OkResponse(call[c].r.repo)
        /\ ~HasCredentials(call[c].r)
        /\ repoCreds[call[c].r.repo] # NoRepo
        /\ HasCredentials(repoCreds[call[c].r.repo])
        /\ call[c].probeCreds = CredsOf(repoCreds[call[c].r.repo])

\* C29: a getConnectionState task that computed a state has, when it
\* returns, called the cache's setter with that state, be it Successful or
\* Failed; when the setter fails the cache keeps what it had, the task still
\* returns the state it computed and no error, and ListRepositories returns
\* the item with that state.
C29_ComputedStateIsCached ==
    \A u \in RepoURLs :
        (probe[u].pc = "done" /\ Computed(u)) =>
            /\ probe[u].setCache
            /\ probe[u].wroteCache => cache[u] = probe[u].state
            /\ ~probe[u].wroteCache =>
                  /\ ~probe[u].failed
                  /\ probe[u].state =
                        ProbeState(probe[u].lookupOk, probe[u].testOk, probe[u].now)
                  /\ (list.op = "repos" /\ list.pc = "done") =>
                        /\ list.response = "ok"
                        /\ list.items[u].connectionState = probe[u].state
C29_Witness ==
    /\ list.op = "repos" /\ list.pc = "done" /\ list.response = "ok"
    /\ \E u \in DOMAIN list.items :
          /\ probe[u].pc = "done" /\ Computed(u)
          /\ probe[u].setCache /\ ~probe[u].wroteCache
          /\ probe[u].state.status = ConnectionStatusFailed
          /\ list.items[u].connectionState = probe[u].state
          /\ cache[u] # probe[u].state

\* The record stored for the URL of the call of client c, in the collection
\* the call is about.
StoredFor(c) ==
    IF call[c].op = "update" THEN repos[call[c].r.repo]
                             ELSE repoCreds[call[c].r.repo]

\* C30: an UpdateRepository or UpdateRepositoryCredentials that passed the
\* "update" check called the storage's update and nothing else: it tested
\* no connection, its answer names the request's URL whether or not the
\* storage failed, it fails iff the storage did, and when the storage did
\* not the stored record is the request's record, whatever was stored before.
C30_UpdateOverwrites ==
    \A c \in Clients :
        (/\ call[c].op \in {"update", "updateCreds"} /\ call[c].pc = "done"
         /\ ~call[c].denied) =>
            /\ call[c].probed = "no" /\ call[c].did = {"storage"}
            /\ call[c].upd # << >>
            /\ call[c].response.repo = call[c].r.repo
            /\ call[c].response.kind \in {"ok", "StorageError"}
            /\ call[c].response.kind = "ok" <=>
                  (~call[c].upd.dbErr /\ call[c].before # NoRepo)
            /\ StoredFor(c) = IF call[c].response.kind = "ok" THEN call[c].r
                                                              ELSE call[c].before
            /\ call[c].wrote <=>
                  (call[c].response.kind = "ok" /\ call[c].r # call[c].before)
C30_Witness ==
    \E c \in Clients :
        /\ call[c].op = "update" /\ call[c].pc = "done"
        /\ call[c].response = OkResponse(call[c].r.repo)
        /\ call[c].before # NoRepo /\ call[c].before # call[c].r
        /\ repos[call[c].r.repo] = call[c].r
        /\ call[c].probed = "no"

\* The enforcer's question the handler of op puts first, for the object url.
FirstQuestion(action, url) ==
    [resource |-> "repositories", action |-> action, object |-> url]

\* C31: the first question a handler puts to the enforcer is about the
\* resource "repositories" and the URL of the request, with the action "get"
\* in ListApps and GetAppDetails, "create" in CreateRepository,
\* CreateRepositoryCredentials and ValidateAccess, "update" in
\* UpdateRepository and UpdateRepositoryCredentials, "delete" in
\* DeleteRepository and DeleteRepositoryCredentials; the list handlers ask
\* with "get" for the URLs the storage lists; the only further question is
\* the "update" of the UpdateRepository a Create runs.
C31_FixedActions ==
    /\ \A c \in Clients :
          call[c].pc = "done" =>
            /\ call[c].asked # << >>
            /\ call[c].op \in {"listApps", "appDetails"} =>
                  call[c].asked = <<FirstQuestion("get", call[c].r.repo)>>
            /\ call[c].op \in {"create", "createCreds", "validate"} =>
                  call[c].asked[1] = FirstQuestion("create", call[c].r.repo)
            /\ call[c].op \in {"update", "updateCreds"} =>
                  call[c].asked = <<FirstQuestion("update", call[c].r.repo)>>
            /\ call[c].op \in {"delete", "deleteCreds"} =>
                  call[c].asked = <<FirstQuestion("delete", call[c].r.repo)>>
            /\ Len(call[c].asked) > 1 =>
                  /\ call[c].op \in {"create", "createCreds"} /\ call[c].upsert
                  /\ call[c].asked = <<FirstQuestion("create", call[c].r.repo),
                                       FirstQuestion("update", call[c].r.repo)>>
    /\ (list.pc = "done" /\ list.listed # {}) => list.action = "get"
C31_Witness ==
    \E c \in Clients :
        /\ call[c].pc = "done" /\ call[c].op = "create"
        /\ call[c].response = OkResponse(CachedURL)
        /\ call[c].asked = <<FirstQuestion("create", CachedURL),
                             FirstQuestion("update", CachedURL)>>
        /\ cache[CachedURL] # NoState

\* C32: a CreateRepository with upsert that finds a stored record of
\* different content goes on only when the enforcer allows "update" too:
\* allowed "create" and denied "update", it returns the permission error and
\* the stored record is as it was; when it succeeded, "update" was allowed.
C32_UpsertNeedsUpdate ==
    \A c \in Clients :
        (/\ call[c].pc = "done" /\ call[c].op = "create" /\ call[c].upsert
         /\ ExistingDiffers(c) /\ ~call[c].interfered /\ ~EndedEarly(c)) =>
            /\ call[c].upd # << >>
            /\ ~call[c].upd.allowed <=> call[c].updateDenied
            /\ call[c].updateDenied =>
                  /\ call[c].response = ErrResponse("PermissionDenied")
                  /\ ~call[c].wrote
                  /\ repos[call[c].r.repo] = call[c].before
            /\ call[c].response.kind = "ok" => call[c].upd.allowed
C32_Witness ==
    \E c \in Clients :
        /\ call[c].pc = "done" /\ call[c].op = "create" /\ call[c].upsert
        /\ ExistingDiffers(c) /\ ~call[c].denied /\ call[c].updateDenied
        /\ call[c].response = ErrResponse("PermissionDenied")
        /\ repos[call[c].r.repo] = call[c].before

\* A step of InitializeGPGKeyRing.
InitStep ==
    \/ initPc' # initPc
    \/ initImported' # initImported
    \/ initFailed' # initFailed
\* InitializeGPGKeyRing is not turned away while the semaphore is held.
InitNeverLocked ==
    /\ initResult # "locked"
    /\ initPc \notin {"idle", "done"} => initResult = "none"

\* C33: InitializeGPGKeyRing never returns the "already in progress" error,
\* whether or not a SynchronizeGPGPublicKeys holds the semaphore, and none of
\* its steps changes the semaphore or the position of a caller of
\* SynchronizeGPGPublicKeys.
C33_InitIgnoresLock ==
    []InitNeverLocked /\ [][InitStep => UNCHANGED <<syncSemaphore, pc>>]_vars
C33_Witness ==
    /\ syncSemaphore = 1
    /\ pc[FirstCaller] = "import" /\ attempt[FirstCaller].imported # {}
    /\ initPc = "import" /\ initImported # {}
    /\ keyring # hist[FirstCaller].atAcquire

\* C34: when InitializeGPGKeyRing ends with an error after it imported keys,
\* those keys are still in the keyring and the call returns no map; when
\* the listing of the declared keys fails it ends before any import.
C34_InitNoRollback ==
    /\ (initPc = "done" /\ initResult \notin {"ok", "none"}) =>
          /\ \A k \in initImported : keyring[k] # "absent"
          /\ InitResultMap(initResult, initImported) = {}
    /\ (initPc = "done" /\ initResult \in {"errGnuPG", "errConfigured"}) =>
          /\ initImported = {} /\ initFailed = NoKey
          /\ initConfigured = EmptyMap
C34_Witness ==
    /\ initPc = "done" /\ initResult = "errImport"
    /\ initImported # {} /\ initFailed \notin initImported
    /\ \A k \in initImported : keyring[k] = "public"
    /\ pc[FirstCaller] = "idle" /\ hist[FirstCaller] = NoHist

\* A DeleteRepository whose storage delete failed.
DeleteFailed(c) ==
    /\ call[c].op = "delete" /\ call[c].pc = "done"
    /\ call[c].response = ErrResponse("StorageError")

\* C35 (as stated): when the storage delete of a DeleteRepository fails, the
\* error is returned, the record is stored as before and the cache holds no
\* entry for the URL.
C35_EntryAbsentOnFailure ==
    \A c \in Clients :
        DeleteFailed(c) =>
            /\ repos[call[c].r.repo] = call[c].before
            /\ cache[call[c].r.repo] = NoState

\* C35 (amended): when the storage delete of a DeleteRepository fails, the
\* error is returned, the record is stored as before, and the invalidation
\* of the cache entry was called before the storage delete: the cache holds
\* no entry for the URL unless that invalidation failed.
C35_InvalidatedBeforeDelete ==
    \A c \in Clients :
        DeleteFailed(c) =>
            /\ call[c].did = {"cache", "storage"}
            /\ ~call[c].wrote
            /\ repos[call[c].r.repo] = call[c].before
            /\ ~call[c].cacheErr => cache[call[c].r.repo] = NoState
C35_Witness ==
    \E c \in Clients :
        /\ DeleteFailed(c) /\ ~call[c].cacheErr
        /\ call[c].before # NoRepo
        /\ repos[call[c].r.repo] = call[c].before
        /\ cache[call[c].r.repo] = NoState
        /\ \E u \in RepoURLs : cache[u] # NoState

\* C36: the record a CreateRepository inserts is the request's record with
\* the connection state Successful: it holds the credentials the request
\* carried, none when the connection was tested with those of the stored
\* credential set.
C36_InsertedRecord ==
    \A c \in Clients :
        (/\ call[c].op = "create" /\ call[c].pc = "done"
         /\ call[c].wrote /\ call[c].upd = << >>) =>
            /\ call[c].before = NoRepo
            /\ repos[call[c].r.repo].connectionState = ConnectionStatusSuccessful
            /\ CredsOf(repos[call[c].r.repo]) = call[c].sent
            /\ repos[call[c].r.repo] = call[c].r
            /\ createdBy[call[c].r.repo] = call[c].r
C36_Witness ==
    \E c \in Clients :
        /\ call[c].op = "create" /\ call[c].pc = "done"
        /\ call[c].wrote /\ call[c].upd = << >>
        /\ call[c].sent = CredsOf(NoRepo)
        /\ call[c].probeCreds # CredsOf(NoRepo)
        /\ ~HasCredentials(repos[call[c].r.repo])

\* The stored secrets a record can hold, and the record with another one.
Passwords == {c.password : c \in Credentials}
WithPassword(rec, pw) == [rec EXCEPT !.password = pw]
\* The list item the handler makes of the stored record of u.
ItemOf(stored, u) == Item(u, stored, stored.insecure, stored.enableLFS)

\* C37 (as stated): what a call returns is the same whatever the stored
\* records hold as secrets: the list items, and the answer of a
\* CreateRepository that finds a stored record.
C37_AnswersIgnoreSecrets ==
    /\ (list.op = "repos" /\ list.pc = "done" /\ list.response = "ok") =>
          \A u \in DOMAIN list.items : \A pw \in Passwords :
              ItemOf(WithPassword(repos[u], pw), u) = ItemOf(repos[u], u)
    /\ \A c \in Clients :
          (call[c].pc = "exists" /\ repos[call[c].r.repo] # NoRepo) =>
              \A pw \in Passwords :
                  OnConflict(SameSpec(WithPassword(repos[call[c].r.repo], pw),
                                      call[c].r), call[c].upsert)
                    = OnConflict(SameSpec(repos[call[c].r.repo], call[c].r),
                                 call[c].upsert)

\* C37 (amended): the answers carry no stored secret: a CreateRepository or
\* UpdateRepository answers with the URL of the request and nothing else,
\* the answer of UpdateRepository is the same whatever secret the stored
\* record holds, and a list item holds url, username, insecure, enableLFS
\* and connectionState, the same whatever secret the stored record holds.
C37_AnswersCarryNoSecret ==
    /\ \A c \in Clients :
          call[c].pc = "done" =>
            /\ DOMAIN call[c].response = {"kind", "repo"}
            /\ call[c].response.repo \in {"", call[c].r.repo}
    /\ \A c \in Clients :
          (call[c].pc = "update" /\ repos[call[c].r.repo] # NoRepo) =>
              \A pw \in Passwords, allowed \in BOOLEAN, dbErr \in BOOLEAN :
                  UpdateResult(call[c].r, allowed, dbErr,
                               WithPassword(repos[call[c].r.repo], pw)).response
                    = UpdateResult(call[c].r, allowed, dbErr,
                                   repos[call[c].r.repo]).response
    /\ \A u \in DOMAIN list.items :
          LET stored == IF list.op = "repos" THEN repos[u] ELSE repoCreds[u]
          IN  /\ DOMAIN list.items[u] =
                    {"repo", "username", "insecure", "enableLFS", "connectionState"}
              /\ stored # NoRepo =>
                    \A pw \in Passwords :
                        [list.items[u] EXCEPT !.connectionState = NoState]
                          = IF list.op = "repos"
                            THEN ItemOf(WithPassword(stored, pw), u)
                            ELSE Item(u, WithPassword(stored, pw), FALSE, FALSE)
C37_Witness ==
    /\ list.op = "repos" /\ list.pc = "done" /\ list.response = "ok"
    /\ \E u \in DOMAIN list.items :
          /\ repos[u].password # ""
          /\ list.items[u].username = repos[u].username
          /\ list.items[u].connectionState # NoState

\* A getConnectionState task writes the state it computed.
ProbeWrites ==
    \E u \in RepoURLs :
        /\ probe[u].pc = "set" /\ probe'[u].pc = "done"
        /\ cache' = [cache EXCEPT ![u] = probe[u].state]
\* A DeleteRepository removes the entry of its URL.
DeleteClears ==
    \E c \in Clients :
        /\ call[c].pc = "idle" /\ call'[c].op = "delete"
        /\ cache' = [cache EXCEPT ![call'[c].r.repo] = NoState]
\* Only DeleteRepository has called the cache.
OnlyDeleteCallsCache ==
    \A c \in Clients : "cache" \in call[c].did => call[c].op = "delete"

\* C38: the cache changes only when a getConnectionState task writes its
\* state or a DeleteRepository removes an entry: CreateRepository (with or
\* without upsert), UpdateRepository, ValidateAccess and the credential-set
\* handlers never call it, so the entry of a URL is still there after the
\* record of the URL has been overwritten.
C38_CacheFrame ==
    []OnlyDeleteCallsCache
      /\ [][cache' # cache => (ProbeWrites \/ DeleteClears)]_vars
C38_Witness ==
    \E c \in Clients :
        /\ call[c].op = "update" /\ call[c].pc = "done" /\ call[c].wrote
        /\ call[c].response = OkResponse(CachedURL)
        /\ CredsOf(call[c].before) # CredsOf(repos[CachedURL])
        /\ cache[CachedURL].status = ConnectionStatusSuccessful

\* C39: when s.db.GetRepository fails in ListRepositories for a URL the
\* storage listed and the enforcer allows - the record may have been deleted
\* since the listing - the call returns the error with no items, and no
\* getConnectionState task has been started.
C39_ListAllOrNothing ==
    (list.op = "repos" /\ ~(list.looked \subseteq DOMAIN list.items)) =>
        /\ list.pc = "done" /\ list.response = "StorageError"
        /\ list.items = << >>
        /\ list.looked \subseteq list.listed \cap list.allowed
        /\ \A u \in RepoURLs : probe[u] = NoProbe
C39_Witness ==
    /\ list.op = "repos" /\ list.pc = "done" /\ list.response = "StorageError"
    /\ Cardinality(list.listed) = 1
    /\ \E u \in list.looked : repos[u] = NoRepo /\ deletedAt[u].done
    /\ \A u \in RepoURLs : probe[u] = NoProbe

\* A call of ValidateAccess.
ValidateStep == \E c \in Clients : call[c].pc = "idle" /\ call'[c].op = "validate"
\* What a ValidateAccess that has returned did: it called the storage for
\* the stored credential set at most, and tested the connection with the
\* request's credentials, or with those of the stored set, none when there
\* is no such set.
ValidateReadsOnly ==
    \A c \in Clients :
        call[c].op = "validate" =>
            /\ call[c].pc = "done" /\ ~call[c].wrote
            /\ call[c].did \subseteq {"storage", "probe"}
            /\ call[c].upd = << >>
            /\ call[c].probed # "no" =>
                  call[c].probeCreds =
                      IF HasCredentials(call[c].r) THEN CredsOf(call[c].r)
                      ELSE IF repoCreds[call[c].r.repo] = NoRepo
                      THEN [username |-> "", password |-> ""]
                      ELSE [username |-> repoCreds[call[c].r.repo].username,
                            password |-> repoCreds[call[c].r.repo].password]

\* C40: ValidateAccess changes neither the stored records nor the cache on
\* any of its paths, and tests the connection with the credentials of the
\* request, or when the request has none with those of the stored
\* credential set of the URL, or with none when there is no such set.
C40_ValidateReadOnly ==
    []ValidateReadsOnly
      /\ [][ValidateStep => UNCHANGED <<repos, repoCreds, createdBy, cache>>]_vars
C40_Witness ==
    \E c \in Clients :
        /\ call[c].op = "validate" /\ call[c].response = EmptyResponse
        /\ call[c].sent = CredsOf(NoRepo) /\ ~HasCredentials(call[c].r)
        /\ repoCreds[CachedURL] # NoRepo
        /\ call[c].probeCreds = CredsOf(repoCreds[CachedURL])
        /\ call[c].probeCreds.password # ""
        /\ repos[CachedURL] # NoRepo /\ cache[CachedURL] # NoState

====
